---- MODULE Spec2Model ----
(***************************************************************************)
(* Harmony Metadata Annotator: metadata override resolution, attribute    *)
(* editing, pseudo-dimension renaming, synthesis of missing variables and  *)
(* the orchestration of one granule (metadata_annotator/annotate.py,       *)
(* history_functions.py, geotransform.py).                                 *)
(*                                                                         *)
(* Text (paths, patterns, attribute names, attribute values) is a sequence *)
(* of one-character strings, so that the operations the code performs on   *)
(* text (re.match, re.escape, str.startswith, str.split, os.path.split)    *)
(* are computed character by character.                                    *)
(***************************************************************************)
EXTENDS Integers, Sequences, FiniteSets, TLC

(***************************************************************************)
(* Bounds of the model.                                                    *)
(***************************************************************************)
\* Largest number of live override rules of the granule's collection.
MaxRules == 3

\* Largest column or row index, and largest start index, of a function call.
MaxIndex == 2

\* The largest number of bracketed groups of a history entry.
MaxGroups == 3

\* The largest rank of a subset index reference variable.
MaxRank == 3

(***************************************************************************)
(* Text helpers.                                                           *)
(***************************************************************************)
RECURSIVE Concat(_)
\* ''.join(parts)
Concat(parts) ==
    IF parts = <<>> THEN <<>> ELSE Head(parts) \o Concat(Tail(parts))

\* str.startswith(prefix)
StartsWith(s, prefix) ==
    /\ Len(s) >= Len(prefix)
    /\ SubSeq(s, 1, Len(prefix)) = prefix

\* Number of occurrences of character c in s.
CountChar(s, c) == Cardinality({i \in 1..Len(s) : s[i] = c})

\* Position of the last occurrence of c in s (0 when absent).
LastIndexOf(s, c) ==
    LET hits == {i \in 1..Len(s) : s[i] = c}
    IN  IF hits = {} THEN 0 ELSE CHOOSE i \in hits : \A j \in hits : j <= i

RECURSIVE SplitOn(_, _)
\* str.split(sep) for a one-character separator: the pieces between
\* separators, empty pieces kept.
SplitOn(s, sep) ==
    LET hits == {i \in 1..Len(s) : s[i] = sep}
    IN  IF hits = {} THEN <<s>>
        ELSE LET i == CHOOSE k \in hits : \A j \in hits : k <= j
             IN  <<SubSeq(s, 1, i - 1)>> \o SplitOn(SubSeq(s, i + 1, Len(s)), sep)

\* str.split() with no argument: split on runs of whitespace, no empty pieces.
SplitWhitespace(s) == SelectSeq(SplitOn(s, " "), LAMBDA piece : piece # <<>>)

(***************************************************************************)
(* Regular expressions (the re module, for the syntax the rule patterns    *)
(* of the model use: literal characters, ".", "*", "^", "$" and top-level  *)
(* alternation "|").                                                       *)
(***************************************************************************)
\* Characters re.escape puts a backslash before (Python >= 3.7).
SpecialChars ==
    {"(", ")", "[", "]", "{", "}", "?", "*", "+", "-", "|", "^", "$", "\\",
     ".", "&", "~", "#", " "}

RECURSIVE re_escape(_)
\* re.escape(pattern_string)
re_escape(s) ==
    IF s = <<>> THEN <<>>
    ELSE (IF Head(s) \in SpecialChars THEN <<"\\", Head(s)>> ELSE <<Head(s)>>)
         \o re_escape(Tail(s))

\* One pattern atom against one character.
CharMatches(atom, c) == atom = "." \/ atom = c

RECURSIVE MatchHere(_, _, _, _)
\* Whether pattern pat, from its position i on, matches some prefix of the
\* text that starts at position j of str.
MatchHere(pat, i, str, j) ==
    IF i > Len(pat) THEN TRUE
    ELSE IF pat[i] = "^" THEN j = 1 /\ MatchHere(pat, i + 1, str, j)
    ELSE IF pat[i] = "$" THEN j = Len(str) + 1 /\ MatchHere(pat, i + 1, str, j)
    ELSE IF i < Len(pat) /\ pat[i + 1] = "*"
         THEN \E k \in 0..(Len(str) - j + 1) :
                 /\ \A m \in 0..(k - 1) : CharMatches(pat[i], str[j + m])
                 /\ MatchHere(pat, i + 2, str, j + k)
    ELSE /\ j <= Len(str)
         /\ CharMatches(pat[i], str[j])
         /\ MatchHere(pat, i + 1, str, j + 1)

\* re.compile(pattern).match(path) is not None: the pattern matches at the
\* start of the path; nothing requires the match to reach the end of it.
re_match(pat, str) ==
    \E i \in 1..Len(SplitOn(pat, "|")) : MatchHere(SplitOn(pat, "|")[i], 1, str, 1)

(***************************************************************************)
(* Attribute names and reserved attribute values of the program, and the   *)
(* attribute names of the sample granule and rule set of the unit tests.   *)
(***************************************************************************)
\* 'update'
A_update ==
    <<"u", "p", "d", "a", "t", "e">>
\* 'addition'
A_addition ==
    <<"a", "d", "d", "i", "t", "i", "o", "n">>
\* 'delete'
A_delete ==
    <<"d", "e", "l", "e", "t", "e">>
\* 'units'
A_units ==
    <<"u", "n", "i", "t", "s">>
\* '_*temp'
A_temp ==
    <<"_", "*", "t", "e", "m", "p">>
\* '_*'
A_marker_only ==
    <<"_", "*">>
\* 'dimensions'
A_dimensions ==
    <<"d", "i", "m", "e", "n", "s", "i", "o", "n", "s">>
\* 'standard_name'
A_standard_name ==
    <<"s", "t", "a", "n", "d", "a", "r", "d", "_", "n", "a", "m", "e">>
\* 'grid_mapping'
A_grid_mapping ==
    <<"g", "r", "i", "d", "_", "m", "a", "p", "p", "i", "n", "g">>
\* 'ancillary_variables'
A_ancillary_variables ==
    <<"a", "n", "c", "i", "l", "l", "a", "r", "y", "_", "v", "a", "r", "i", "a", "b", "l", "e", "s">>
\* 'history'
A_history ==
    <<"h", "i", "s", "t", "o", "r", "y">>
\* 'History'
A_History ==
    <<"H", "i", "s", "t", "o", "r", "y">>
\* 'corner_point_offsets'
A_corner_point_offsets ==
    <<"c", "o", "r", "n", "e", "r", "_", "p", "o", "i", "n", "t", "_", "o", "f", "f", "s", "e", "t", "s">>
\* '_*subset_index_reference'
A_tmp_subset_index_reference ==
    <<"_", "*", "s", "u", "b", "s", "e", "t", "_", "i", "n", "d", "e", "x", "_", "r", "e", "f", "e", "r", "e", "n", "c", "e">>
\* '_*corner_point_offsets'
A_tmp_corner_point_offsets ==
    <<"_", "*", "c", "o", "r", "n", "e", "r", "_", "p", "o", "i", "n", "t", "_", "o", "f", "f", "s", "e", "t", "s">>
\* '_*master_geotransform'
A_tmp_master_geotransform ==
    <<"_", "*", "m", "a", "s", "t", "e", "r", "_", "g", "e", "o", "t", "r", "a", "n", "s", "f", "o", "r", "m">>
\* 'history_subset_index_ranges'
T_history_subset_index_ranges ==
    <<"h", "i", "s", "t", "o", "r", "y", "_", "s", "u", "b", "s", "e", "t", "_", "i", "n", "d", "e", "x", "_", "r", "a", "n", "g", "e", "s">>
\* 'projection_x_coordinate'
T_projection_x_coordinate ==
    <<"p", "r", "o", "j", "e", "c", "t", "i", "o", "n", "_", "x", "_", "c", "o", "o", "r", "d", "i", "n", "a", "t", "e">>
\* 'projection_y_coordinate'
T_projection_y_coordinate ==
    <<"p", "r", "o", "j", "e", "c", "t", "i", "o", "n", "_", "y", "_", "c", "o", "o", "r", "d", "i", "n", "a", "t", "e">>

(***************************************************************************)
(* Attribute values: a closed variant of text, list of numbers and None.   *)
(***************************************************************************)
\* A string value.
Str(s) == [t |-> "str", s |-> s, n |-> <<>>]
\* A list-of-numbers value.
Nums(n) == [t |-> "nums", s |-> <<>>, n |-> n]
\* Python's None (an override value of null in the configuration).
None == [t |-> "null", s |-> <<>>, n |-> <<>>]

\* Python truthiness of an attribute value (None, '' and [] are falsy).
Truthy(v) == v.t # "null" /\ (v.s # <<>> \/ v.n # <<>>)

\* dict.get(name, default)
Get(d, name, default) == IF name \in DOMAIN d THEN d[name] ELSE default

\* dict.update(other): other's entries are added to d or replace d's.
DictUpdate(d, other) ==
    [k \in DOMAIN d \cup DOMAIN other |->
        IF k \in DOMAIN other THEN other[k] ELSE d[k]]

\* del d[name] for every name of names that d has (a KeyError is swallowed).
DictWithout(d, names) == [k \in DOMAIN d \ names |-> d[k]]

\* The empty dict.
EmptyDict == [k \in {} |-> None]

(***************************************************************************)
(* Paths of the modelled granules and rule sets.                           *)
(***************************************************************************)
\* The root group.
P_root == <<"/">>
\* A sub group.
P_g == <<"/", "g">>
\* A scalar variable of the root group.
P_v == <<"/", "v">>
\* A two-dimensional variable of the sub group.
P_s == <<"/", "g", "/", "s">>
\* A one-dimensional variable of the sub group.
P_t == <<"/", "g", "/", "t">>
\* Dimension variables of the sub group.
P_x == <<"/", "g", "/", "x">>
P_y == <<"/", "g", "/", "y">>
\* A grid mapping variable, absent from every input granule.
P_m == <<"/", "m">>
\* An ancillary variable, absent from every input granule.
P_a == <<"/", "a">>
\* A path that is absent from every input granule and that nothing refers to.
P_n == <<"/", "n">>

(***************************************************************************)
(* Pure functions of annotate.py.                                          *)
(***************************************************************************)
\* is_exact_path: escaping the pattern reproduces it unchanged.
is_exact_path(pattern_string) == re_escape(pattern_string) = pattern_string

\* is_temporary_attribute: the name starts with '_*' and is longer than it.
is_temporary_attribute(attribute_name) ==
    StartsWith(attribute_name, <<"_", "*">>) /\ Len(attribute_name) > 2

\* os.path.split(path): (head, tail) around the last '/'; the head keeps no
\* trailing slash unless it is the root.
os_path_split(path) ==
    LET i == LastIndexOf(path, "/")
        head == SubSeq(path, 1, i)
        rstripped ==
            IF \A k \in 1..Len(head) : head[k] = "/" THEN head
            ELSE SubSeq(head, 1,
                        CHOOSE k \in 1..Len(head) :
                            /\ head[k] # "/"
                            /\ \A j \in (k + 1)..Len(head) : head[j] = "/")
    IN  <<rstripped, SubSeq(path, i + 1, Len(path))>>

\* f'{node.path}/{dim}' of get_dimension_variables.
DimensionPath(node_path, dim) == node_path \o <<"/">> \o dim

(***************************************************************************)
(* The input granule.  A tree is a record: groups (the group paths), attrs *)
(* (path -> attribute dict, for groups and variables), dims (variable path *)
(* -> its ordered dimension names) and values (variable path -> its data,  *)
(* flattened in row-major order).  Variables of the root group are scalars *)
(* (get_dimension_variables documents that dimension variables are assumed *)
(* to live in a sub group), and every dimension has DimSize elements.      *)
(***************************************************************************)
\* Number of elements along every dimension of the modelled granules.
DimSize == 2

\* range(n) as a sequence.
Arange(n) == [i \in 1..n |-> i - 1]

\* Text of a history attribute written by an earlier processing step.
H_plain == <<"v", "1">>

\* Text of a history attribute that records the index ranges of an earlier
\* subsetting request: 'q=c=/g/s[1:9][2:9]', the variable /g/s from index 1
\* along its first and from index 2 along its second dimension.
H_provenance ==
    <<"q", "=", "c", "=", "/", "g", "/", "s",
      "[", "1", ":", "9", "]", "[", "2", ":", "9", "]">>

\* The global history attributes the input granule may carry.
HistoryVariants ==
    { EmptyDict,
      (A_history :> Str(H_plain)),
      (A_History :> Str(H_plain)),
      (A_History :> Str(H_plain)) @@ (A_history :> Str(<<"v", "0">>)),
      (A_history :> Str(H_provenance)) }

\* The input granule: with_y tells whether the dimension variable /g/y
\* already exists in it (then /g/s is declared on the dimensions y and x, of
\* which x has no variable).
InputTree(hist, with_y) ==
    LET base_attrs ==
            (P_root :> DictUpdate((A_update :> Str(<<"o">>))
                                   @@ (A_delete :> Str(<<"d">>)), hist))
         @@ (P_g :> ((A_update :> Str(<<"o">>)) @@ (A_delete :> Str(<<"d">>))))
         @@ (P_v :> ((A_units :> Str(<<"s">>))
                     @@ (A_ancillary_variables :> Str(P_a))))
         @@ (P_s :> (A_units :> Str(<<"k">>)))
         @@ (P_t :> ((A_delete :> Str(<<"d">>)) @@ (A_units :> Str(<<"k">>))))
        base_dims ==
            (P_v :> <<>>)
         @@ (P_s :> IF with_y THEN << <<"y">>, <<"x">> >>
                              ELSE << <<"p">>, <<"q">> >>)
         @@ (P_t :> << <<"p">> >>)
        base_values ==
            (P_v :> <<7>>)
         @@ (P_s :> [k \in 1..(DimSize * DimSize) |-> 5 + ((k - 1) % DimSize)])
         @@ (P_t :> [k \in 1..DimSize |-> 2 + k])
    IN  [ groups |-> {P_root, P_g},
          attrs  |-> IF with_y
                     THEN base_attrs
                          @@ (P_y :> ((A_units :> Str(<<"m">>))
                                      @@ (A_corner_point_offsets :>
                                            Str(T_history_subset_index_ranges))))
                     ELSE base_attrs,
          dims   |-> IF with_y THEN base_dims @@ (P_y :> << <<"y">> >>)
                     ELSE base_dims,
          values |-> IF with_y THEN base_values @@ (P_y :> Arange(DimSize))
                     ELSE base_values ]

\* The variable paths of a tree.
VariablesOf(t) == DOMAIN t.dims

\* Every path (group or variable) of a tree.
NodesOf(t) == t.groups \cup VariablesOf(t)

\* The tree has no file behind it (not opened, or nothing written).
NoTree == [groups |-> {}, attrs |-> EmptyDict, dims |-> EmptyDict,
           values |-> EmptyDict]

(***************************************************************************)
(* The rule sets: metadata_overrides maps a pattern to the attribute dict  *)
(* it sets.  The live rule set of a granule is any choice of at most       *)
(* MaxRules of these rules.                                                *)
(***************************************************************************)
\* GDAL geotransform of the configuration (even coefficients, so that the
\* pixel centres are whole numbers).
GT_config == <<-2000, 1000, 0, 0, 0, -1000>>

RuleUniverse ==
    (* '^/$': the root group only *)
    (<<"^", "/", "$">> :>
        ((A_update :> Str(<<"c">>)) @@ (A_addition :> Str(<<"n">>))
        @@ (A_delete :> None)))
    (* '/g': matches /g and, as a prefix, everything below it *)
 @@ (<<"/", "g">> :>
        ((A_update :> Str(<<"c">>)) @@ (A_temp :> Str(<<"t">>))
        @@ (A_addition :> None)))
    (* '/g$': the sub group only *)
 @@ (<<"/", "g", "$">> :>
        ((A_addition :> Str(<<"n">>)) @@ (A_marker_only :> Str(<<"e">>))
        @@ (A_delete :> None)))
    (* '/g/s' *)
 @@ (P_s :>
        ((A_dimensions :> Str(<<"y", " ", "x">>)) @@ (A_grid_mapping :> Str(P_m))
        @@ (A_units :> None) @@ (A_temp :> Str(<<"t">>))))
    (* '/g/.*': every variable of the sub group *)
 @@ (<<"/", "g", "/", ".", "*">> :>
        ((A_dimensions :> Str(<<"y">>)) @@ (A_delete :> None)
        @@ (A_temp :> None)))
    (* '/v' *)
 @@ (P_v :>
        ((A_grid_mapping :> Str(P_m)) @@ (A_units :> Str(<<"c">>))
        @@ (A_tmp_subset_index_reference :> Str(P_s))))
    (* '/m': the grid mapping variable *)
 @@ (P_m :>
        ((A_tmp_master_geotransform :> Nums(GT_config))
        @@ (A_addition :> Str(<<"n">>)) @@ (A_delete :> None)))
    (* '/a': the ancillary variable *)
 @@ (P_a :> ((A_addition :> Str(<<"n">>)) @@ (A_temp :> Str(<<"t">>))))
    (* '/n': an exact path nothing refers to *)
 @@ (P_n :> ((A_addition :> Str(<<"n">>))))
    (* '/n.*': a wildcard that matches nothing *)
 @@ (<<"/", "n", ".", "*">> :> ((A_addition :> Str(<<"n">>))))
    (* '/n|/w': alternatives that match nothing *)
 @@ (<<"/", "n", "|", "/", "w">> :> ((A_addition :> Str(<<"n">>))))
    (* '/g/x': a projected x dimension, start index from the history *)
 @@ (P_x :>
        ((A_standard_name :> Str(T_projection_x_coordinate))
        @@ (A_grid_mapping :> Str(P_m))
        @@ (A_tmp_corner_point_offsets :> Str(T_history_subset_index_ranges))
        @@ (A_update :> None)))
    (* '/g/y': a projected y dimension, start index from a reference *)
 @@ (P_y :>
        ((A_standard_name :> Str(T_projection_y_coordinate))
        @@ (A_grid_mapping :> Str(P_m))
        @@ (A_tmp_subset_index_reference :> Str(P_s))
        @@ (A_units :> None)))

\* The rule sets a granule's collection may have.
RuleSets ==
    { [p \in pats |-> RuleUniverse[p]] :
        pats \in {ps \in SUBSET DOMAIN RuleUniverse : Cardinality(ps) <= MaxRules} }

(***************************************************************************)
(* State.                                                                  *)
(***************************************************************************)
VARIABLES
    rules,                \* granule_varinfo.cf_config.metadata_overrides
    in_tree,              \* the input file
    pc,                   \* the statement annotate_granule is at
    tree,                 \* the DataTree opened on the input file
    items_to_update,      \* first result of get_matching_groups_and_variables
    variables_to_create,  \* second result of get_matching_groups_and_variables
    todo,                 \* what the loop being run has still to visit
    done_items,           \* paths update_metadata_attributes has been applied to
    dimension_vars,       \* dimension_variables of amend_in_file_metadata
    dimension_idx_map,    \* dimension_index_map of update_dimension_variables
    out_file,             \* the output file (NoTree while it does not exist)
    error,                \* the exception that ended the run
    call                  \* a single function under test: name, arguments, result

vars == <<rules, in_tree, pc, tree, items_to_update, variables_to_create,
          todo, done_items, dimension_vars, dimension_idx_map,
          out_file, error, call>>

\* No exception.
NoError == [type |-> "none", args |-> <<>>]

\* An exception of the given class, raised with the given arguments.
Raised(type, args) == [type |-> type, args |-> args]

\* No function is called on its own (a granule is being annotated).
NoCall == [fn |-> "none", args |-> <<>>, returned |-> FALSE, error |-> NoError,
           value |-> <<>>]

(***************************************************************************)
(* earthdata-varinfo, as annotate.py uses it.                              *)
(***************************************************************************)
\* Specificity of a rule pattern: the depth of the hierarchy it names.
PatternDepth(pattern) == CountChar(pattern, "/")

\* Specificity of a rule pattern: the length of the basename it names.
PatternBasenameLength(pattern) == Len(pattern) - LastIndexOf(pattern, "/")

\* The most specific of the patterns: deepest hierarchy, then shortest
\* basename.
MostSpecific(patterns) ==
    CHOOSE p \in patterns :
        \A q \in patterns :
            \/ PatternDepth(p) > PatternDepth(q)
            \/ /\ PatternDepth(p) = PatternDepth(q)
               /\ PatternBasenameLength(p) <= PatternBasenameLength(q)

\* cf_config.get_metadata_overrides(path): the attributes of every rule whose
\* pattern matches the path; the most specific rule decides a name that
\* several matching rules set.
get_metadata_overrides(path) ==
    LET matching == {p \in DOMAIN rules : re_match(p, path)}
        names == UNION {DOMAIN rules[p] : p \in matching}
    IN  [name \in names |->
            rules[MostSpecific({p \in matching : name \in DOMAIN rules[p]})][name]]

\* granule_varinfo.groups
varinfo_groups == in_tree.groups

\* granule_varinfo.variables
varinfo_variables == VariablesOf(in_tree)

(***************************************************************************)
(* annotate.py                                                             *)
(***************************************************************************)
\* override_pattern.match(path) is not None
PatternMatches(pattern_string, path) == re_match(pattern_string, path)

\* pattern_matches of get_matching_groups_and_variables for one pattern.
pattern_matches(pattern_string) ==
    {group \in varinfo_groups : PatternMatches(pattern_string, group)}
    \cup {variable \in varinfo_variables : PatternMatches(pattern_string, variable)}

\* A faulty variant of get_matching_groups_and_variables that takes every pattern
\* without a match for a missing variable.
get_matching_groups_and_variables_any_pattern ==
    << UNION {pattern_matches(p) : p \in DOMAIN rules},
       {p \in DOMAIN rules : pattern_matches(p) = {}} >>

\* A faulty variant of get_matching_groups_and_variables that takes every
\* exact path for a missing variable, matched or not.
get_matching_groups_and_variables_every_exact_path ==
    << UNION {pattern_matches(p) : p \in DOMAIN rules},
       {p \in DOMAIN rules : is_exact_path(p)} >>

\* get_matching_groups_and_variables: <<matches, missing_variables>>
get_matching_groups_and_variables ==
    << UNION {pattern_matches(p) : p \in DOMAIN rules},
       {p \in DOMAIN rules : pattern_matches(p) = {} /\ is_exact_path(p)} >>

\* A faulty variant of attributes_to_update that keeps the temporary attributes.
attributes_to_update_with_temporary(matching_overrides) ==
    [name \in {n \in DOMAIN matching_overrides : matching_overrides[n] # None}
        |-> matching_overrides[name]]

\* attributes_to_update of update_metadata_attributes (and, with the same
\* comprehension, of update_metadata_attributes_for_data_array).
attributes_to_update(matching_overrides) ==
    [name \in {n \in DOMAIN matching_overrides :
                  /\ ~is_temporary_attribute(n)
                  /\ matching_overrides[n] # None} |-> matching_overrides[name]]

\* A faulty variant of attributes_to_delete that deletes nothing.
attributes_to_delete_none(matching_overrides) == {}

\* attributes_to_delete of update_metadata_attributes.
attributes_to_delete(matching_overrides) ==
    (DOMAIN matching_overrides
        \ DOMAIN attributes_to_update(matching_overrides))
        \ {n \in DOMAIN matching_overrides : is_temporary_attribute(n)}

\* A faulty variant of update_metadata_attributes that replaces the node's
\* attributes by the overrides.
update_metadata_attributes_replace(t, group_or_variable_path) ==
    LET matching_overrides == get_metadata_overrides(group_or_variable_path)
    IN  [t EXCEPT !.attrs[group_or_variable_path] =
            attributes_to_update(matching_overrides)]

\* A faulty variant of update_metadata_attributes that only adds absent attributes.
update_metadata_attributes_no_overwrite(t, group_or_variable_path) ==
    LET matching_overrides == get_metadata_overrides(group_or_variable_path)
    IN  [t EXCEPT !.attrs[group_or_variable_path] =
            DictWithout(DictUpdate(attributes_to_update(matching_overrides), @),
                        attributes_to_delete(matching_overrides))]

\* update_metadata_attributes: the tree after the call.
update_metadata_attributes(t, group_or_variable_path) ==
    LET matching_overrides == get_metadata_overrides(group_or_variable_path)
    IN  [t EXCEPT !.attrs[group_or_variable_path] =
            DictWithout(DictUpdate(@, attributes_to_update(matching_overrides)),
                        attributes_to_delete(matching_overrides))]

\* data_array.dims of a node: a variable's ordered dimension names; for a
\* group the names of the dimensions of its own variables.
NodeDims(t, path) ==
    IF path \in DOMAIN t.dims THEN t.dims[path]
    ELSE LET names == UNION {{t.dims[v][i] : i \in 1..Len(t.dims[v])} :
                             v \in {w \in DOMAIN t.dims :
                                       os_path_split(w)[1] = path}}
         IN  CHOOSE s \in [1..Cardinality(names) -> names] :
                 {s[i] : i \in 1..Cardinality(names)} = names

\* A faulty variant of update_dimension_names that renames what it can and never
\* raises.
update_dimension_names_lenient(t, variable_to_update) ==
    LET rename_dim_list ==
            SplitWhitespace(Get(t.attrs[variable_to_update], A_dimensions,
                                Str(<<>>)).s)
        dims == NodeDims(t, variable_to_update)
    IN  [ error |-> NoError,
          tree |-> IF variable_to_update \in DOMAIN t.dims
                   THEN [t EXCEPT !.dims[variable_to_update] =
                           [i \in 1..Len(dims) |->
                               IF i <= Len(rename_dim_list)
                               THEN rename_dim_list[i] ELSE dims[i]]]
                   ELSE t ]

\* update_dimension_names: [error, tree]; the tree is the one after the call
\* when no error is raised.
update_dimension_names(t, variable_to_update) ==
    LET rename_dim_list ==
            SplitWhitespace(Get(t.attrs[variable_to_update], A_dimensions,
                                Str(<<>>)).s)
        dims == NodeDims(t, variable_to_update)
    IN  IF rename_dim_list = <<>> THEN [error |-> NoError, tree |-> t]
        ELSE IF Len(dims) # Len(rename_dim_list)
        THEN [ error |-> Raised("InvalidDimensionsConfiguration",
                                <<variable_to_update, Len(rename_dim_list),
                                  Len(dims)>>),
               tree |-> t ]
        ELSE IF variable_to_update \notin DOMAIN t.dims
        \* A group's dims is a mapping, which cannot be sliced.
        THEN [error |-> Raised("TypeError", <<>>), tree |-> t]
        ELSE [ error |-> NoError,
               tree |-> [t EXCEPT !.dims[variable_to_update] =
                           [i \in 1..Len(dims) |->
                               IF i <= Len(rename_dim_list)
                               THEN rename_dim_list[i] ELSE dims[i]]] ]

\* A faulty variant of update_group_and_variable_attributes' loop body that renames
\* before it edits the attributes.
update_item_rename_first(t, item_to_update) ==
    LET renamed ==
            IF Truthy(Get(t.attrs[item_to_update], A_dimensions, Str(<<>>)))
            THEN update_dimension_names(t, item_to_update)
            ELSE [error |-> NoError, tree |-> t]
    IN  [ error |-> renamed.error,
          tree |-> update_metadata_attributes(renamed.tree, item_to_update) ]

\* The body of update_group_and_variable_attributes' loop for one item.
update_item(t, item_to_update) ==
    LET edited == update_metadata_attributes(t, item_to_update)
    IN  IF Truthy(Get(edited.attrs[item_to_update], A_dimensions, Str(<<>>)))
        THEN update_dimension_names(edited, item_to_update)
        ELSE [error |-> NoError, tree |-> edited]

\* The parent group of a path.
ParentOf(path) == os_path_split(path)[1]

\* create_new_variable: an empty, attribute-only variable is put at the path
\* (with its parent group, when the tree lacks it), then the overrides of the
\* path are applied.
create_new_variable(t, variable_path) ==
    LET parent == ParentOf(variable_path)
        with_variable ==
            [ groups |-> t.groups \cup {parent},
              attrs  |-> DictUpdate(
                             IF parent \in t.groups THEN t.attrs
                             ELSE DictUpdate(t.attrs, (parent :> EmptyDict)),
                             (variable_path :> EmptyDict)),
              dims   |-> DictUpdate(t.dims, (variable_path :> <<>>)),
              values |-> DictUpdate(t.values, (variable_path :> <<>>)) ]
    IN  update_metadata_attributes(with_variable, variable_path)

\* The attributes earthdata-varinfo holds for a variable of the granule: the
\* ones of the file, with the overrides of the rule set applied.
varinfo_attributes(variable) ==
    DictUpdate(in_tree.attrs[variable],
               attributes_to_update(get_metadata_overrides(variable)))

\* granule_varinfo.get_references_for_attribute(all_variables, attribute)
get_references_for_attribute(attribute) ==
    UNION { LET refs == SplitWhitespace(varinfo_attributes(v)[attribute].s)
            IN  {refs[i] : i \in 1..Len(refs)} :
            v \in {w \in varinfo_variables :
                      attribute \in DOMAIN varinfo_attributes(w)} }

\* get_referenced_variables
get_referenced_variables(reference_attributes) ==
    UNION {get_references_for_attribute(a) : a \in reference_attributes}

\* candidate_reference_attributes of amend_in_file_metadata.
candidate_reference_attributes == {A_grid_mapping, A_ancillary_variables}

\* A faulty variant of referenced_variables_to_create that creates every missing
\* variable.
referenced_variables_to_create_all == variables_to_create

\* referenced_variables_to_create of amend_in_file_metadata.
referenced_variables_to_create ==
    variables_to_create \cap get_referenced_variables(candidate_reference_attributes)

\* node_ds.data_vars: the variables of a group that are not the index
\* coordinate of a dimension of their own name.
DataVars(t, group) ==
    {v \in DOMAIN t.dims :
        /\ os_path_split(v)[1] = group
        /\ t.dims[v] # <<os_path_split(v)[2]>>}

\* get_dimension_variables
get_dimension_variables(t) ==
    UNION { UNION { {DimensionPath(node, t.dims[v][i]) : i \in 1..Len(t.dims[v])} :
                    v \in DataVars(t, node) } :
            node \in t.groups }

\* A faulty variant of update_metadata_attributes_for_data_array that also
\* writes the temporary attributes.
update_metadata_attributes_for_data_array_with_temporary(attrs, group_or_variable_path) ==
    DictUpdate(attrs,
               [name \in {n \in DOMAIN get_metadata_overrides(group_or_variable_path) :
                              get_metadata_overrides(group_or_variable_path)[n] # None}
                   |-> get_metadata_overrides(group_or_variable_path)[name]])

\* update_metadata_attributes_for_data_array: the attributes after the call.
update_metadata_attributes_for_data_array(attrs, group_or_variable_path) ==
    DictUpdate(attrs,
               attributes_to_update(get_metadata_overrides(group_or_variable_path)))

\* update_dimension_variable_attributes: [error, tree].  dataset[name] is the
\* variable of that name or, for a dimension without one, its default index
\* 0..size-1; the assignment back makes it a variable of the group.
update_dimension_variable_attributes(t, variable_path) ==
    LET group_path == os_path_split(variable_path)[1]
        dimension_name == os_path_split(variable_path)[2]
        exists == variable_path \in DOMAIN t.dims
        data_attrs == IF exists THEN t.attrs[variable_path] ELSE EmptyDict
    IN  IF group_path \notin t.groups
        THEN [error |-> Raised("KeyError", <<group_path>>), tree |-> t]
        ELSE IF ~exists /\ variable_path \notin get_dimension_variables(t)
        THEN [error |-> Raised("KeyError", <<dimension_name>>), tree |-> t]
        ELSE [ error |-> NoError,
               tree |->
                 [ groups |-> t.groups,
                   attrs  |-> DictUpdate(t.attrs,
                       (variable_path :>
                           update_metadata_attributes_for_data_array(
                               data_attrs, variable_path))),
                   dims   |-> DictUpdate(t.dims,
                       (variable_path :>
                           IF exists THEN t.dims[variable_path]
                           ELSE <<dimension_name>>)),
                   values |-> DictUpdate(t.values,
                       (variable_path :>
                           IF exists THEN t.values[variable_path]
                           ELSE Arange(DimSize))) ] ]

\* valid_dim_standard_names of get_spatial_dimension_variables.
valid_dim_standard_names ==
    {Str(T_projection_x_coordinate), Str(T_projection_y_coordinate)}

\* A faulty variant of get_spatial_dimension_variables that only knows the
\* x axis.
get_spatial_dimension_variables_x_only(t, variables) ==
    {variable_path \in variables :
        Get(t.attrs[variable_path], A_standard_name, None)
            = Str(T_projection_x_coordinate)}

\* get_spatial_dimension_variables
get_spatial_dimension_variables(t, variables) ==
    {variable_path \in variables :
        Get(t.attrs[variable_path], A_standard_name, None)
            \in valid_dim_standard_names}

(***************************************************************************)
(* history_functions.py                                                    *)
(***************************************************************************)
\* The provenance line of write_history_attrs: the ISO-8601 UTC timestamp,
\* PROGRAM and the semantic version, joined by blanks ("T", "P" and "V" stand
\* for the three fields).
new_history_line == <<"T", " ", "P", " ", "V">>

\* A faulty variant of read_history_attrs that only knows the lower-case name.
read_history_attrs_lowercase_only(t) ==
    IF A_history \in DOMAIN t.attrs[P_root]
    THEN <<A_history, t.attrs[P_root][A_history]>>
    ELSE <<A_history, None>>

\* read_history_attrs: <<history_attribute_name, existing_history>>
read_history_attrs(t) ==
    IF A_History \in DOMAIN t.attrs[P_root]
    THEN <<A_History, t.attrs[P_root][A_History]>>
    ELSE IF A_history \in DOMAIN t.attrs[P_root]
    THEN <<A_history, t.attrs[P_root][A_history]>>
    ELSE <<A_history, None>>

\* write_history_attrs: the tree after the call.
write_history_attrs(t, history_attribute_name, existing_history) ==
    [t EXCEPT !.attrs[P_root] =
        DictUpdate(@, (history_attribute_name :>
            Str(IF Truthy(existing_history)
                THEN existing_history.s \o <<"\n">> \o new_history_line
                ELSE new_history_line)))]

\* update_history_metadata: the tree after the call.
update_history_metadata(t) ==
    write_history_attrs(t, read_history_attrs(t)[1], read_history_attrs(t)[2])

\* The character a %XX escape stands for (the escapes of the characters of
\* an OPeNDAP constraint expression).
PercentCodes ==
    (<<"5", "B">> :> "[") @@ (<<"5", "D">> :> "]") @@ (<<"3", "B">> :> ";")
 @@ (<<"3", "A">> :> ":") @@ (<<"2", "F">> :> "/") @@ (<<"3", "D">> :> "=")
 @@ (<<"2", "6">> :> "&") @@ (<<"3", "F">> :> "?")

RECURSIVE unquote(_)
\* urllib.parse.unquote
unquote(s) ==
    IF s = <<>> THEN <<>>
    ELSE IF Head(s) = "%" /\ Len(s) >= 3 /\ SubSeq(s, 2, 3) \in DOMAIN PercentCodes
    THEN <<PercentCodes[SubSeq(s, 2, 3)]>> \o unquote(SubSeq(s, 4, Len(s)))
    ELSE <<Head(s)>> \o unquote(Tail(s))

\* The part of s before the first c, and the part after it.
Partition(s, c) ==
    LET hits == {i \in 1..Len(s) : s[i] = c}
        i == CHOOSE k \in hits : \A j \in hits : k <= j
    IN  <<SubSeq(s, 1, i - 1), SubSeq(s, i + 1, Len(s))>>

\* A value of a query string, decoded: '+' is a blank, then unquote.
UnquotePlus(s) == unquote([i \in 1..Len(s) |-> IF s[i] = "+" THEN " " ELSE s[i]])

\* The values of parse_qs(text), in the order of the text: the pairs are
\* separated by '&', a pair is name=value split at its first '=', and pairs
\* without '=' or with an empty value are dropped.
parse_qs_values(text) ==
    LET pairs == SelectSeq(SplitOn(text, "&"),
                           LAMBDA pair : /\ CountChar(pair, "=") > 0
                                         /\ Partition(pair, "=")[2] # <<>>)
    IN  [i \in 1..Len(pairs) |-> UnquotePlus(Partition(pairs[i], "=")[2])]

\* str.rstrip(): trailing whitespace removed.
RStrip(s) ==
    LET keep == {i \in 1..Len(s) : s[i] \notin {" ", "\n"}}
    IN  IF keep = {} THEN <<>>
        ELSE SubSeq(s, 1, CHOOSE i \in keep : \A j \in keep : j <= i)

RECURSIVE FindBrackets(_)
\* re.findall(r'\[(.*?)\]', s): the shortest bracketed texts, left to right.
FindBrackets(s) ==
    LET opens == {i \in 1..Len(s) : s[i] = "["}
    IN  IF opens = {} THEN <<>>
        ELSE LET o == CHOOSE k \in opens : \A j \in opens : k <= j
                 closes == {i \in (o + 1)..Len(s) : s[i] = "]"}
             IN  IF closes = {} THEN <<>>
                 ELSE LET c == CHOOSE k \in closes : \A j \in closes : k <= j
                      IN  <<SubSeq(s, o + 1, c - 1)>>
                          \o FindBrackets(SubSeq(s, c + 1, Len(s)))

\* A faulty variant of get_index_range_substring whose pattern is greedy:
\* everything between the first '[' and the last ']' is one group.
get_index_range_substring_greedy(index_range_string) ==
    LET starts == {i \in 1..Len(index_range_string) : index_range_string[i] = "["}
        ends == {i \in 1..Len(index_range_string) : index_range_string[i] = "]"}
        start_index == CHOOSE k \in starts : \A j \in starts : k <= j
        end_index == CHOOSE k \in ends : \A j \in ends : j <= k
    IN  IF index_range_string = <<>> THEN << <<>>, <<>> >>
        ELSE IF starts # {} /\ ends # {} /\ start_index <= end_index
        THEN << SubSeq(index_range_string, 1, start_index - 1),
                << SubSeq(index_range_string, start_index + 1, end_index - 1) >> >>
        ELSE << <<>>, <<>> >>

\* get_index_range_substring: <<variable, index_range_dims>>
get_index_range_substring(index_range_string) ==
    LET starts == {i \in 1..Len(index_range_string) : index_range_string[i] = "["}
        ends == {i \in 1..Len(index_range_string) : index_range_string[i] = "]"}
        start_index == CHOOSE k \in starts : \A j \in starts : k <= j
        end_index == CHOOSE k \in ends : \A j \in ends : j <= k
    IN  IF index_range_string = <<>> THEN << <<>>, <<>> >>
        ELSE IF starts # {} /\ ends # {} /\ start_index <= end_index
        THEN << SubSeq(index_range_string, 1, start_index - 1),
                FindBrackets(SubSeq(index_range_string, start_index, end_index)) >>
        ELSE << <<>>, <<>> >>

\* The decimal digits.
Digits ==
    ("0" :> 0) @@ ("1" :> 1) @@ ("2" :> 2) @@ ("3" :> 3) @@ ("4" :> 4)
 @@ ("5" :> 5) @@ ("6" :> 6) @@ ("7" :> 7) @@ ("8" :> 8) @@ ("9" :> 9)

\* Whether int(s) returns (s is a non-empty run of digits).
IsInt(s) == s # <<>> /\ \A i \in 1..Len(s) : s[i] \in DOMAIN Digits

RECURSIVE ParseInt(_)
\* int(s) for a run of digits.
ParseInt(s) ==
    IF s = <<>> THEN 0
    ELSE 10 * ParseInt(SubSeq(s, 1, Len(s) - 1)) + Digits[s[Len(s)]]

\* int(dim.split(':')[0]) if dim else 0 can be computed for every dim.
StartDimsParse(dim_indices) ==
    \A i \in 1..Len(dim_indices) :
        dim_indices[i] = <<>> \/ IsInt(SplitOn(dim_indices[i], ":")[1])

\* start_dims of parse_start_indices_from_history_attr.
StartDims(dim_indices) ==
    [i \in 1..Len(dim_indices) |->
        IF dim_indices[i] = <<>> THEN 0
        ELSE ParseInt(SplitOn(dim_indices[i], ":")[1])]

\* A faulty variant of parse_start_indices_from_history_attr that takes the
\* first value of a text without any pair.
parse_start_indices_from_history_attr_unchecked(t) ==
    LET existing_history == read_history_attrs(t)[2]
        values == parse_qs_values(unquote(existing_history.s))
    IN  IF ~Truthy(existing_history) THEN [error |-> NoError, map |-> EmptyDict]
        ELSE IF values = <<>>
        THEN [error |-> Raised("IndexError", <<>>), map |-> EmptyDict]
        ELSE [error |-> NoError, map |-> EmptyDict]

\* parse_start_indices_from_history_attr: [error, map], the map from
\* variable to its start indices.
parse_start_indices_from_history_attr(t) ==
    LET existing_history == read_history_attrs(t)[2]
        values == parse_qs_values(unquote(existing_history.s))
        pieces == SplitOn(values[1], "=")
        index_range_entries == SplitOn(RStrip(pieces[2]), ";")
        parsed == [i \in 1..Len(index_range_entries) |->
                      get_index_range_substring(index_range_entries[i])]
        keys == {parsed[i][1] : i \in 1..Len(parsed)}
    IN  IF ~Truthy(existing_history) THEN [error |-> NoError, map |-> EmptyDict]
        ELSE IF values = <<>> THEN [error |-> NoError, map |-> EmptyDict]
        ELSE IF Len(pieces) < 2
        THEN [error |-> Raised("IndexError", <<>>), map |-> EmptyDict]
        ELSE IF \E i \in 1..Len(parsed) : ~StartDimsParse(parsed[i][2])
        THEN [error |-> Raised("ValueError", <<>>), map |-> EmptyDict]
        ELSE [ error |-> NoError,
               map |-> [variable \in keys |->
                   LET last == CHOOSE i \in 1..Len(parsed) :
                                   /\ parsed[i][1] = variable
                                   /\ \A j \in (i + 1)..Len(parsed) :
                                          parsed[j][1] # variable
                   IN  StartDims(parsed[last][2])] ]

\* The dimension paths earthdata-varinfo holds for a variable: the names of
\* its 'dimensions' attribute (overrides applied) or of the file, each
\* qualified by the group of the variable.
varinfo_dimensions(variable) ==
    LET a == varinfo_attributes(variable)
        names == IF A_dimensions \in DOMAIN a
                 THEN SplitWhitespace(a[A_dimensions].s)
                 ELSE in_tree.dims[variable]
        group == ParentOf(variable)
    IN  [i \in 1..Len(names) |->
            IF group = P_root THEN P_root \o names[i]
            ELSE DimensionPath(group, names[i])]

\* granule_var_info.group_variables_by_dimensions(): dimension tuple -> the
\* variables declared on exactly that tuple.
group_variables_by_dimensions ==
    [dimlist \in {varinfo_dimensions(v) : v \in varinfo_variables} |->
        {v \in varinfo_variables : varinfo_dimensions(v) = dimlist}]

\* The orders a set may be iterated in.
IterationOrders(S) ==
    {s \in [1..Cardinality(S) -> S] : \A i, j \in 1..Cardinality(S) : s[i] = s[j] => i = j}

\* get_variable_dimension_map: the dict as the sequence of its items,
\* <<dimension tuple, variable>>.  list(varlist)[0] takes whichever variable
\* the set yields first and the items come in the order earthdata-varinfo
\* built them in, so every choice of representatives in every order is a
\* possible result.
get_variable_dimension_maps ==
    UNION { { [i \in 1..Len(order) |-> <<order[i], m[order[i]]>>] :
                order \in IterationOrders(DOMAIN m) } :
            m \in {f \in [DOMAIN group_variables_by_dimensions -> varinfo_variables] :
                     \A dimlist \in DOMAIN f :
                         f[dimlist] \in group_variables_by_dimensions[dimlist]} }

\* dict(zip(variable_dimensions, start_indices)): zip stops at the shorter
\* of the two, and a dimension that occurs twice keeps its last index.
ZipDict(variable_dimensions, start_indices) ==
    LET n == IF Len(variable_dimensions) < Len(start_indices)
             THEN Len(variable_dimensions) ELSE Len(start_indices)
    IN  [d \in {variable_dimensions[i] : i \in 1..n} |->
            start_indices[CHOOSE i \in 1..n :
                /\ variable_dimensions[i] = d
                /\ \A j \in (i + 1)..n : variable_dimensions[j] # d]]

RECURSIVE UpdateFromTuples(_, _)
\* dimension_index_map after the loop over the items of
\* variable_dimension_map, in their order.
UpdateFromTuples(items, variable_start_indices_map) ==
    IF items = <<>> THEN EmptyDict
    ELSE LET before == UpdateFromTuples(SubSeq(items, 1, Len(items) - 1),
                                        variable_start_indices_map)
             variable_dimensions == items[Len(items)][1]
             variable_path == items[Len(items)][2]
         IN  IF variable_path \in DOMAIN variable_start_indices_map
             THEN DictUpdate(before,
                             ZipDict(variable_dimensions,
                                     variable_start_indices_map[variable_path]))
             ELSE before

\* A faulty variant of get_dim_index_from_var_dim_map that keeps the first
\* index a dimension got.
get_dim_index_from_var_dim_map_first_wins(variable_dimension_map, variable_start_indices_map) ==
    UpdateFromTuples([i \in 1..Len(variable_dimension_map) |->
                         variable_dimension_map[Len(variable_dimension_map) + 1 - i]],
                     variable_start_indices_map)

\* get_dim_index_from_var_dim_map
get_dim_index_from_var_dim_map(variable_dimension_map, variable_start_indices_map) ==
    UpdateFromTuples(variable_dimension_map, variable_start_indices_map)

\* get_start_index_from_history
get_start_index_from_history(dimension_index_map, dimension_variable_path) ==
    IF dimension_variable_path \in DOMAIN dimension_index_map
    THEN dimension_index_map[dimension_variable_path]
    ELSE 0

RECURSIVE AnyFlagged(_, _)
\* any(datatree[dim].attrs.get('corner_point_offsets')
\*     == 'history_subset_index_ranges' for dim in dimension_variables):
\* "true" at the first flagged variable, "KeyError" at a variable the tree
\* lacks, "false" at the end of the list.
AnyFlagged(t, dimension_variables) ==
    IF dimension_variables = <<>> THEN "false"
    ELSE IF Head(dimension_variables) \notin NodesOf(t) THEN "KeyError"
    ELSE IF Get(t.attrs[Head(dimension_variables)], A_corner_point_offsets, None)
                = Str(T_history_subset_index_ranges)
    THEN "true"
    ELSE AnyFlagged(t, Tail(dimension_variables))

\* A faulty variant of get_dimension_index_map that reads the history whether
\* or not a dimension variable is flagged.
get_dimension_index_map_unconditional(t, dimension_variables, variable_dimension_map) ==
    IF AnyFlagged(t, dimension_variables) = "KeyError"
    THEN [error |-> Raised("MissingDimensionVariable", <<>>), map |-> EmptyDict]
    ELSE LET parsed == parse_start_indices_from_history_attr(t)
         IN  IF parsed.error # NoError THEN parsed
             ELSE [ error |-> NoError,
                    map |-> get_dim_index_from_var_dim_map(
                                variable_dimension_map, parsed.map) ]

\* get_dimension_index_map for the dimension variables in the order they are
\* iterated in and one choice of representatives: [error, map].
get_dimension_index_map(t, dimension_variables, variable_dimension_map) ==
    IF AnyFlagged(t, dimension_variables) = "KeyError"
    THEN [error |-> Raised("MissingDimensionVariable", <<>>), map |-> EmptyDict]
    ELSE IF AnyFlagged(t, dimension_variables) = "false"
    THEN [error |-> NoError, map |-> EmptyDict]
    ELSE LET parsed == parse_start_indices_from_history_attr(t)
         IN  IF parsed.error # NoError THEN parsed
             ELSE [ error |-> NoError,
                    map |-> get_dim_index_from_var_dim_map(
                                variable_dimension_map, parsed.map) ]

(***************************************************************************)
(* geotransform.py.  Coordinates are whole numbers: the geotransforms of   *)
(* the model have even coefficients, so that half a pixel is a whole       *)
(* number.                                                                 *)
(***************************************************************************)
\* A faulty variant of col_row_to_xy that samples the upper left corner of
\* the grid cell.
col_row_to_xy_corner(geotransform, col, row) ==
    << geotransform[1] + col * geotransform[2] + row * geotransform[3],
       geotransform[4] + col * geotransform[5] + row * geotransform[6] >>

\* Geotransform.col_row_to_xy: <<x, y>> of the centre of the grid cell.
col_row_to_xy(geotransform, col, row) ==
    << geotransform[1]
         + ((2 * col + 1) * geotransform[2] + (2 * row + 1) * geotransform[3]) \div 2,
       geotransform[4]
         + ((2 * col + 1) * geotransform[5] + (2 * row + 1) * geotransform[6]) \div 2 >>

\* A faulty variant of compute_dimension_scale that starts one cell late.
compute_dimension_scale_one_late(start_index, dim_size, spatial_dimension_type, dimension_value_dtype, geotransform_config) ==
    IF spatial_dimension_type = "x"
    THEN [ error |-> NoError,
           scale |-> [k \in 1..dim_size |->
               col_row_to_xy(geotransform_config, start_index + k, 0)[1]] ]
    ELSE IF spatial_dimension_type = "y"
    THEN [ error |-> NoError,
           scale |-> [k \in 1..dim_size |->
               col_row_to_xy(geotransform_config, 0, start_index + k)[2]] ]
    ELSE [ error |-> Raised("InvalidSpatialDimensionType", <<spatial_dimension_type>>),
           scale |-> <<>> ]

\* compute_dimension_scale: [error, scale]
compute_dimension_scale(start_index, dim_size, spatial_dimension_type, dimension_value_dtype, geotransform_config) ==
    IF spatial_dimension_type = "x"
    THEN [ error |-> NoError,
           scale |-> [k \in 1..dim_size |->
               col_row_to_xy(geotransform_config, start_index + k - 1, 0)[1]] ]
    ELSE IF spatial_dimension_type = "y"
    THEN [ error |-> NoError,
           scale |-> [k \in 1..dim_size |->
               col_row_to_xy(geotransform_config, 0, start_index + k - 1)[2]] ]
    ELSE [ error |-> Raised("InvalidSpatialDimensionType", <<spatial_dimension_type>>),
           scale |-> <<>> ]

(***************************************************************************)
(* annotate.py: the values of the spatial dimension variables.             *)
(***************************************************************************)
\* granule_varinfo.get_missing_variable_attributes(path): the attributes the
\* rule set configures for the path, temporary ones included.
get_missing_variable_attributes(variable_path) == get_metadata_overrides(variable_path)

\* A faulty variant of get_start_index_from_row_col_variable that accepts
\* every rank from 2 on.
get_start_index_from_row_col_variable_any_rank(t, subset_index_reference) ==
    IF subset_index_reference \notin NodesOf(t)
    THEN [ error |-> Raised("MissingSubsetIndexReference", <<subset_index_reference>>),
           index |-> 0 ]
    ELSE IF Len(NodeDims(t, subset_index_reference)) < 2
    THEN [ error |-> Raised("InvalidSubsetIndexShape", <<subset_index_reference>>),
           index |-> 0 ]
    ELSE [error |-> NoError, index |-> t.values[subset_index_reference][1]]

\* A faulty variant of get_start_index_from_row_col_variable that takes the
\* first value of a variable of rank 1 too.
get_start_index_from_row_col_variable_rank_one(t, subset_index_reference) ==
    IF subset_index_reference \notin NodesOf(t)
    THEN [ error |-> Raised("MissingSubsetIndexReference", <<subset_index_reference>>),
           index |-> 0 ]
    ELSE IF Len(NodeDims(t, subset_index_reference)) \notin {1, 2}
    THEN [ error |-> Raised("InvalidSubsetIndexShape", <<subset_index_reference>>),
           index |-> 0 ]
    ELSE [error |-> NoError, index |-> t.values[subset_index_reference][1]]

\* get_start_index_from_row_col_variable: [error, index]
get_start_index_from_row_col_variable(t, subset_index_reference) ==
    IF subset_index_reference \notin NodesOf(t)
    THEN [ error |-> Raised("MissingSubsetIndexReference", <<subset_index_reference>>),
           index |-> 0 ]
    ELSE IF Len(NodeDims(t, subset_index_reference)) # 2
    THEN [ error |-> Raised("InvalidSubsetIndexShape", <<subset_index_reference>>),
           index |-> 0 ]
    ELSE [error |-> NoError, index |-> t.values[subset_index_reference][1]]

\* A faulty variant of get_grid_start_index that looks at the history flag
\* first.
get_grid_start_index_history_first(t, dimension_index_map, dimension_variable_path) ==
    LET var_attributes == get_missing_variable_attributes(dimension_variable_path)
        subset_index_reference ==
            Get(var_attributes, A_tmp_subset_index_reference, None)
    IN  IF Get(var_attributes, A_tmp_corner_point_offsets, None)
                = Str(T_history_subset_index_ranges)
        THEN [ error |-> NoError,
               index |-> get_start_index_from_history(dimension_index_map,
                                                      dimension_variable_path) ]
        ELSE IF Truthy(subset_index_reference)
        THEN get_start_index_from_row_col_variable(t, subset_index_reference.s)
        ELSE [ error |-> Raised("MissingStartIndexConfiguration",
                                <<dimension_variable_path>>),
               index |-> 0 ]

\* get_grid_start_index: [error, index]
get_grid_start_index(t, dimension_index_map, dimension_variable_path) ==
    LET var_attributes == get_missing_variable_attributes(dimension_variable_path)
        subset_index_reference ==
            Get(var_attributes, A_tmp_subset_index_reference, None)
    IN  IF Truthy(subset_index_reference)
        THEN get_start_index_from_row_col_variable(t, subset_index_reference.s)
        ELSE IF Get(var_attributes, A_tmp_corner_point_offsets, None)
                    = Str(T_history_subset_index_ranges)
        THEN [ error |-> NoError,
               index |-> get_start_index_from_history(dimension_index_map,
                                                      dimension_variable_path) ]
        ELSE [ error |-> Raised("MissingStartIndexConfiguration",
                                <<dimension_variable_path>>),
               index |-> 0 ]

\* get_spatial_dimension_type: [error, type]
get_spatial_dimension_type(attrs, name) ==
    LET standard_name == Get(attrs, A_standard_name, None)
    IN  IF ~Truthy(standard_name)
        THEN [ error |-> Raised("MissingDimensionAttribute", <<name, A_standard_name>>),
               type |-> "" ]
        ELSE IF standard_name = Str(T_projection_x_coordinate)
        THEN [error |-> NoError, type |-> "x"]
        ELSE IF standard_name = Str(T_projection_y_coordinate)
        THEN [error |-> NoError, type |-> "y"]
        ELSE [ error |-> Raised("InvalidDimensionAttribute", <<name, A_standard_name>>),
               type |-> "" ]

\* A faulty variant of get_geotransform_config that takes a grid mapping
\* variable without configuration for one without geotransform.
get_geotransform_config_one_error(attrs, name) ==
    LET grid_mapping_reference == Get(attrs, A_grid_mapping, None)
        grid_mapping_attributes ==
            get_missing_variable_attributes(grid_mapping_reference.s)
        geotransform_config ==
            Get(grid_mapping_attributes, A_tmp_master_geotransform, None)
    IN  IF ~Truthy(grid_mapping_reference)
        THEN [ error |-> Raised("MissingDimensionAttribute", <<name, A_grid_mapping>>),
               config |-> <<>> ]
        ELSE IF ~Truthy(geotransform_config)
        THEN [ error |-> Raised("MissingDimensionAttribute",
                                <<name, A_tmp_master_geotransform>>),
               config |-> <<>> ]
        ELSE [error |-> NoError, config |-> geotransform_config.n]

\* get_geotransform_config: [error, config]
get_geotransform_config(attrs, name) ==
    LET grid_mapping_reference == Get(attrs, A_grid_mapping, None)
        grid_mapping_attributes ==
            get_missing_variable_attributes(grid_mapping_reference.s)
        geotransform_config ==
            Get(grid_mapping_attributes, A_tmp_master_geotransform, None)
    IN  IF ~Truthy(grid_mapping_reference)
        THEN [ error |-> Raised("MissingDimensionAttribute", <<name, A_grid_mapping>>),
               config |-> <<>> ]
        ELSE IF DOMAIN grid_mapping_attributes = {}
        THEN [ error |-> Raised("InvalidGridMappingReference",
                                <<grid_mapping_reference.s>>),
               config |-> <<>> ]
        ELSE IF ~Truthy(geotransform_config)
        THEN [ error |-> Raised("MissingDimensionAttribute",
                                <<name, A_tmp_master_geotransform>>),
               config |-> <<>> ]
        ELSE [error |-> NoError, config |-> geotransform_config.n]

\* The body of update_spatial_dimension_values' loop for one dimension
\* variable: [error, tree].
update_spatial_dimension_value(t, variable_path, dimension_index_map) ==
    LET start == get_grid_start_index(t, dimension_index_map, variable_path)
        dimension_size == Len(t.values[variable_path])
        type == get_spatial_dimension_type(t.attrs[variable_path], variable_path)
        geotransform == get_geotransform_config(t.attrs[variable_path], variable_path)
        scale == compute_dimension_scale(start.index, dimension_size, type.type,
                                         "float64", geotransform.config)
    IN  IF variable_path \notin NodesOf(t)
        THEN [ error |-> Raised("MissingDimensionVariable", <<variable_path>>),
               tree |-> t ]
        ELSE IF start.error # NoError THEN [error |-> start.error, tree |-> t]
        ELSE IF type.error # NoError THEN [error |-> type.error, tree |-> t]
        ELSE IF geotransform.error # NoError
        THEN [error |-> geotransform.error, tree |-> t]
        ELSE IF scale.error # NoError THEN [error |-> scale.error, tree |-> t]
        ELSE [ error |-> NoError,
               tree |-> [t EXCEPT !.values[variable_path] = scale.scale] ]

(***************************************************************************)
(* annotate_granule, one statement or loop iteration per action.           *)
(***************************************************************************)
\* A faulty variant of has_metadata_overrides that always takes the amending branch.
has_metadata_overrides_always == TRUE

\* len(granule_varinfo.cf_config.metadata_overrides) of annotate_granule.
has_metadata_overrides == Cardinality(DOMAIN rules) > 0

Init ==
    /\ rules \in RuleSets
    /\ \E hist \in HistoryVariants, with_y \in BOOLEAN :
           in_tree = InputTree(hist, with_y)
    /\ pc = "start"
    /\ tree = NoTree
    /\ items_to_update = {}
    /\ variables_to_create = {}
    /\ todo = {}
    /\ done_items = {}
    /\ dimension_vars = {}
    /\ dimension_idx_map = EmptyDict
    /\ out_file = NoTree
    /\ error = NoError
    /\ call = NoCall

\* A faulty variant of Fail that writes the tree the exception left.
Fail_writes_partial_output(t, e) ==
    /\ pc' = "failed"
    /\ error' = e
    /\ tree' = t
    /\ todo' = {}
    /\ out_file' = t
    /\ UNCHANGED <<call, rules, in_tree, items_to_update, variables_to_create,
                   done_items, dimension_vars, dimension_idx_map>>

\* The exception e leaves amend_in_file_metadata: the tree is closed and
\* nothing is written.  tree keeps the in-memory tree the exception left.
Fail(t, e) ==
    /\ pc' = "failed"
    /\ error' = e
    /\ tree' = t
    /\ todo' = {}
    /\ UNCHANGED <<call, rules, in_tree, items_to_update, variables_to_create,
                   done_items, dimension_vars, dimension_idx_map, out_file>>

\* annotate_granule, no overrides for the collection: copy(input, output).
CopyInput ==
    /\ pc = "start"
    /\ ~has_metadata_overrides
    /\ out_file' = in_tree
    /\ pc' = "done"
    /\ UNCHANGED <<call, rules, in_tree, tree, items_to_update, variables_to_create,
                   todo, done_items, dimension_vars, dimension_idx_map, error>>

\* A faulty variant of ResolveRules that appends the history line as soon as
\* the input file is opened.
ResolveRules_appending ==
    /\ pc = "start"
    /\ has_metadata_overrides
    /\ items_to_update' = get_matching_groups_and_variables[1]
    /\ variables_to_create' = get_matching_groups_and_variables[2]
    /\ tree' = update_history_metadata(in_tree)
    /\ todo' = get_matching_groups_and_variables[1]
    /\ pc' = "update_items"
    /\ UNCHANGED <<call, rules, in_tree, done_items, dimension_vars,
                   dimension_idx_map, out_file, error>>

\* amend_in_file_metadata: get_matching_groups_and_variables, then the input
\* file is opened as a DataTree.
ResolveRules ==
    /\ pc = "start"
    /\ has_metadata_overrides
    /\ items_to_update' = get_matching_groups_and_variables[1]
    /\ variables_to_create' = get_matching_groups_and_variables[2]
    /\ tree' = in_tree
    /\ todo' = get_matching_groups_and_variables[1]
    /\ pc' = "update_items"
    /\ UNCHANGED <<call, rules, in_tree, done_items, dimension_vars,
                   dimension_idx_map, out_file, error>>

\* update_group_and_variable_attributes: one iteration of its loop (a set is
\* iterated in no particular order).
UpdateItem ==
    /\ pc = "update_items"
    /\ \E item_to_update \in todo :
        LET r == update_item(tree, item_to_update)
        IN  IF r.error # NoError THEN Fail(r.tree, r.error)
            ELSE /\ tree' = r.tree
                 /\ todo' = todo \ {item_to_update}
                 /\ done_items' = done_items \cup {item_to_update}
                 /\ UNCHANGED <<call, rules, in_tree, pc, items_to_update,
                                variables_to_create, dimension_vars,
                                dimension_idx_map, out_file, error>>

\* The end of update_group_and_variable_attributes: with variables to create,
\* the referenced ones are found; without, the history is next.
FinishUpdateItems ==
    /\ pc = "update_items"
    /\ todo = {}
    /\ IF variables_to_create # {}
       THEN /\ todo' = referenced_variables_to_create
            /\ pc' = "create_variables"
       ELSE /\ todo' = {}
            /\ pc' = "update_history"
    /\ UNCHANGED <<call, rules, in_tree, tree, items_to_update, variables_to_create,
                   done_items, dimension_vars, dimension_idx_map, out_file, error>>

\* create_new_variable for one referenced variable to create.
CreateVariable ==
    /\ pc = "create_variables"
    /\ \E variable_path \in todo :
        /\ tree' = create_new_variable(tree, variable_path)
        /\ todo' = todo \ {variable_path}
        /\ done_items' = done_items \cup {variable_path}
    /\ UNCHANGED <<call, rules, in_tree, pc, items_to_update, variables_to_create,
                   dimension_vars, dimension_idx_map, out_file, error>>

\* get_dimension_variables, and whether any of them is a variable to create.
ResolveDimensionVariables ==
    /\ pc = "create_variables"
    /\ todo = {}
    /\ dimension_vars' = get_dimension_variables(tree)
    /\ IF variables_to_create \cap get_dimension_variables(tree) # {}
       THEN /\ todo' = get_dimension_variables(tree)
            /\ pc' = "update_dimension_attributes"
       ELSE /\ todo' = {}
            /\ pc' = "update_history"
    /\ UNCHANGED <<call, rules, in_tree, tree, items_to_update, variables_to_create,
                   done_items, dimension_idx_map, out_file, error>>

\* update_dimension_variables: one iteration of its first loop.
UpdateDimensionVariable ==
    /\ pc = "update_dimension_attributes"
    /\ \E dimension \in todo :
        LET r == update_dimension_variable_attributes(tree, dimension)
        IN  IF r.error # NoError THEN Fail(r.tree, r.error)
            ELSE /\ tree' = r.tree
                 /\ todo' = todo \ {dimension}
                 /\ UNCHANGED <<call, rules, in_tree, pc, items_to_update,
                                variables_to_create, done_items, dimension_vars,
                                dimension_idx_map, out_file, error>>

\* update_dimension_variables: the spatial dimension variables are found
\* and, when there are any, the dimension index map is built.
ResolveSpatialDimensions ==
    /\ pc = "update_dimension_attributes"
    /\ todo = {}
    /\ LET spatial == get_spatial_dimension_variables(tree, dimension_vars)
       IN  IF spatial = {}
           THEN /\ todo' = {}
                /\ pc' = "update_history"
                /\ UNCHANGED <<call, rules, in_tree, tree, items_to_update,
                               variables_to_create, done_items, dimension_vars,
                               dimension_idx_map, out_file, error>>
           ELSE \E variable_dimension_map \in get_variable_dimension_maps,
                   dimension_variables \in IterationOrders(dimension_vars) :
                LET r == get_dimension_index_map(tree, dimension_variables,
                                                 variable_dimension_map)
                IN  IF r.error # NoError THEN Fail(tree, r.error)
                    ELSE /\ dimension_idx_map' = r.map
                         /\ todo' = spatial
                         /\ pc' = "update_spatial_values"
                         /\ UNCHANGED <<call, rules, in_tree, tree, items_to_update,
                                        variables_to_create, done_items,
                                        dimension_vars, out_file, error>>

\* update_spatial_dimension_values: one iteration of its loop.
UpdateSpatialDimension ==
    /\ pc = "update_spatial_values"
    /\ \E variable_path \in todo :
        LET r == update_spatial_dimension_value(tree, variable_path,
                                                dimension_idx_map)
        IN  IF r.error # NoError THEN Fail(r.tree, r.error)
            ELSE /\ tree' = r.tree
                 /\ todo' = todo \ {variable_path}
                 /\ UNCHANGED <<call, rules, in_tree, pc, items_to_update,
                                variables_to_create, done_items, dimension_vars,
                                dimension_idx_map, out_file, error>>

\* The end of update_spatial_dimension_values.
FinishSpatialDimensions ==
    /\ pc = "update_spatial_values"
    /\ todo = {}
    /\ pc' = "update_history"
    /\ UNCHANGED <<call, rules, in_tree, tree, items_to_update, variables_to_create,
                   todo, done_items, dimension_vars, dimension_idx_map,
                   out_file, error>>

\* update_history_metadata(datatree).  get_semantic_version opens
\* docker/service_version.txt of the working directory, which is there or not.
UpdateHistory ==
    /\ pc = "update_history"
    /\ \E version_file_exists \in BOOLEAN :
          IF ~version_file_exists
          THEN Fail(tree, Raised("FileNotFoundError", <<>>))
          ELSE /\ tree' = update_history_metadata(tree)
               /\ pc' = "write"
               /\ UNCHANGED <<call, rules, in_tree, items_to_update,
                              variables_to_create, todo, done_items,
                              dimension_vars, dimension_idx_map, out_file, error>>

\* A faulty variant of WriteOutput that appends to the history of the tree
\* once more while the file is written.
WriteOutput_mutating ==
    /\ pc = "write"
    /\ out_file' = tree
    /\ tree' = update_history_metadata(tree)
    /\ pc' = "done"
    /\ UNCHANGED <<call, rules, in_tree, items_to_update, variables_to_create,
                   todo, done_items, dimension_vars, dimension_idx_map, error>>

\* datatree.to_netcdf(output_file_name)
WriteOutput ==
    /\ pc = "write"
    /\ out_file' = tree
    /\ pc' = "done"
    /\ UNCHANGED <<call, rules, in_tree, tree, items_to_update, variables_to_create,
                   todo, done_items, dimension_vars, dimension_idx_map, error>>

Next ==
    \/ CopyInput
    \/ ResolveRules
    \/ UpdateItem
    \/ FinishUpdateItems
    \/ CreateVariable
    \/ ResolveDimensionVariables
    \/ UpdateDimensionVariable
    \/ ResolveSpatialDimensions
    \/ UpdateSpatialDimension
    \/ FinishSpatialDimensions
    \/ UpdateHistory
    \/ WriteOutput

Spec == Init /\ [][Next]_vars

(***************************************************************************)
(* Properties of the attribute edits.                                      *)
(***************************************************************************)
\* C1: after update_metadata_attributes has run on a node, every override of
\* the node that is neither temporary nor null is an attribute of the node
\* with the configured value, whether the node had the attribute before
\* (overwrite) or not (addition).
C1_OverridesAreSet ==
    \A p \in done_items :
        \A n \in DOMAIN get_metadata_overrides(p) :
            (~is_temporary_attribute(n) /\ get_metadata_overrides(p)[n] # None)
            => /\ n \in DOMAIN tree.attrs[p]
               /\ tree.attrs[p][n] = get_metadata_overrides(p)[n]

\* An edited node of the input carries one override that replaced another
\* value and one that the input did not have.
C1_Witness ==
    \E p \in done_items \cap NodesOf(in_tree) :
        /\ \E n \in DOMAIN in_tree.attrs[p] \cap DOMAIN get_metadata_overrides(p) :
              /\ get_metadata_overrides(p)[n] # None
              /\ in_tree.attrs[p][n] # get_metadata_overrides(p)[n]
              /\ tree.attrs[p][n] = get_metadata_overrides(p)[n]
        /\ \E n \in DOMAIN get_metadata_overrides(p) \ DOMAIN in_tree.attrs[p] :
              /\ ~is_temporary_attribute(n)
              /\ get_metadata_overrides(p)[n] # None
              /\ tree.attrs[p][n] = get_metadata_overrides(p)[n]

\* C2: after update_metadata_attributes has run on a node, no override of the
\* node that is null and not temporary is an attribute of the node; the call
\* ends normally also when the node never had the attribute.
C2_NullOverridesAreDeleted ==
    \A p \in done_items :
        \A n \in DOMAIN get_metadata_overrides(p) :
            (~is_temporary_attribute(n) /\ get_metadata_overrides(p)[n] = None)
            => n \notin DOMAIN tree.attrs[p]

\* The run ended normally after one null override removed an attribute of
\* the input and another named an attribute its node never had.
C2_Witness ==
    /\ pc = "done"
    /\ \E p \in done_items \cap NodesOf(in_tree) :
          \E n \in DOMAIN in_tree.attrs[p] \cap DOMAIN get_metadata_overrides(p) :
              /\ get_metadata_overrides(p)[n] = None
              /\ n \notin DOMAIN out_file.attrs[p]
    /\ \E p \in done_items \cap NodesOf(in_tree) :
          \E n \in DOMAIN get_metadata_overrides(p) \ DOMAIN in_tree.attrs[p] :
              /\ ~is_temporary_attribute(n)
              /\ get_metadata_overrides(p)[n] = None
              /\ n \notin DOMAIN out_file.attrs[p]

\* C3: no node of the tree being edited, and no node of the output file, has
\* an attribute with a temporary name (the marker _* and at least one more
\* character).
C3_NoTemporaryAttributeWritten ==
    \A t \in {tree, out_file} :
        \A p \in NodesOf(t) :
            \A n \in DOMAIN t.attrs[p] :
                ~(StartsWith(n, <<"_", "*">>) /\ Len(n) > 2)

\* The output was written after temporary overrides applied to a node of the
\* input, to a created variable and to a dimension variable.
C3_Witness ==
    /\ pc = "done"
    /\ \E p \in done_items \cap NodesOf(in_tree) :
          \E n \in DOMAIN get_metadata_overrides(p) : is_temporary_attribute(n)
    /\ \E p \in (done_items \ NodesOf(in_tree)) \cap NodesOf(out_file) :
          \E n \in DOMAIN get_metadata_overrides(p) : is_temporary_attribute(n)
    /\ \E p \in dimension_vars \cap NodesOf(out_file) :
          \E n \in DOMAIN get_metadata_overrides(p) : is_temporary_attribute(n)

\* C4: when a run with a non-empty rule set has written the output, every
\* node of the input is in the output, and every attribute that no
\* applicable override names has there the value (or the absence) it had in
\* the input; only the history attribute of the root group is exempt.
C4_UnnamedAttributesKept ==
    (pc = "done" /\ DOMAIN rules # {}) =>
        \A p \in NodesOf(in_tree) :
            /\ p \in NodesOf(out_file)
            /\ \A n \in (DOMAIN in_tree.attrs[p] \cup DOMAIN out_file.attrs[p])
                           \ DOMAIN get_metadata_overrides(p) :
                  \/ /\ p = P_root
                     /\ n = IF A_History \in DOMAIN in_tree.attrs[P_root]
                            THEN A_History ELSE A_history
                  \/ /\ n \in DOMAIN in_tree.attrs[p]
                     /\ n \in DOMAIN out_file.attrs[p]
                     /\ out_file.attrs[p][n] = in_tree.attrs[p][n]

\* The output was written after a rule edited a node that also has an
\* attribute the rule does not name, while another node matched no rule.
C4_Witness ==
    /\ pc = "done"
    /\ \E p \in done_items \cap NodesOf(in_tree) :
          /\ out_file.attrs[p] # in_tree.attrs[p]
          /\ \E n \in DOMAIN in_tree.attrs[p] :
                /\ n \notin DOMAIN get_metadata_overrides(p)
                /\ n \notin {A_history, A_History}
    /\ \E p \in NodesOf(in_tree) \ {P_root} :
          /\ DOMAIN get_metadata_overrides(p) = {}
          /\ in_tree.attrs[p] # EmptyDict

\* C5: with an empty rule set the tree is never opened, the run cannot fail,
\* and the output file is the input file, its history included.
C5_EmptyRuleSetCopies ==
    DOMAIN rules = {} =>
        /\ tree = NoTree
        /\ pc \in {"start", "done"}
        /\ pc = "done" => out_file = in_tree

\* A run with an empty rule set has written its output, for an input with a
\* history attribute.
C5_Witness ==
    /\ DOMAIN rules = {}
    /\ pc = "done"
    /\ out_file = in_tree
    /\ A_history \in DOMAIN out_file.attrs[P_root]

(***************************************************************************)
(* Properties of the rule resolution, the synthesis and the renaming.      *)
(***************************************************************************)
\* C6: once the rules are resolved, the match set is exactly the set of
\* group and variable paths that at least one pattern matches from the first
\* to the last character; a path that a pattern matches only as a proper
\* prefix is not in it.
C6_MatchSetIsFullMatchSet ==
    (pc # "start" /\ DOMAIN rules # {}) =>
        items_to_update =
            {path \in NodesOf(in_tree) :
                \E p \in DOMAIN rules :
                    \E i \in 1..Len(SplitOn(p, "|")) :
                        MatchHere(SplitOn(p, "|")[i] \o <<"$">>, 1, path, 1)}

\* C7: once the rules are resolved, a pattern that hit no group or variable
\* is in the missing-variable set when it is an exact path (equal to its own
\* escaped form) and is not in it when it has regular expression syntax.
C7_MissingSetClassification ==
    (pc # "start" /\ DOMAIN rules # {}) =>
        \A p \in DOMAIN rules :
            pattern_matches(p) = {} =>
                (p \in variables_to_create <=> is_exact_path(p))

\* The rules are resolved, with an exact path and a regular expression that
\* both hit nothing: the first is missing, the second is not.
C7_Witness ==
    /\ pc = "update_items"
    /\ \E p \in DOMAIN rules :
          pattern_matches(p) = {} /\ is_exact_path(p) /\ p \in variables_to_create
    /\ \E p \in DOMAIN rules :
          pattern_matches(p) = {} /\ ~is_exact_path(p) /\ p \notin variables_to_create

C9_DimensionCountMismatchRaises ==
    /\ \A p \in done_items \cap VariablesOf(in_tree) :
          SplitWhitespace(Get(tree.attrs[p], A_dimensions, Str(<<>>)).s) # <<>>
          => Len(SplitWhitespace(Get(tree.attrs[p], A_dimensions, Str(<<>>)).s))
                = Len(in_tree.dims[p])
    /\ error.type = "InvalidDimensionsConfiguration" =>
          /\ error.args[1] \in VariablesOf(in_tree) \ done_items
          /\ error.args[2]
                = Len(SplitWhitespace(tree.attrs[error.args[1]][A_dimensions].s))
          /\ error.args[3] = Len(in_tree.dims[error.args[1]])
          /\ error.args[2] # error.args[3]
          /\ tree.dims[error.args[1]] = in_tree.dims[error.args[1]]
          /\ out_file = NoTree

\* The run failed on a variable of two dimensions with one listed name.
C9_Witness ==
    /\ pc = "failed"
    /\ error = Raised("InvalidDimensionsConfiguration", <<P_s, 1, 2>>)
    /\ tree.dims[P_s] = in_tree.dims[P_s]

\* C10: an edited variable of the input whose dimensions attribute, as the
\* edits left it, lists as many names as the variable has dimensions, has
\* the i-th listed name for its i-th dimension.
C10_RenamedInOrderAfterEdits ==
    \A p \in done_items \cap VariablesOf(in_tree) :
        LET rename_dim_list ==
                SplitWhitespace(Get(tree.attrs[p], A_dimensions, Str(<<>>)).s)
        IN  (rename_dim_list # <<>> /\ Len(rename_dim_list) = Len(in_tree.dims[p]))
            => /\ Len(tree.dims[p]) = Len(rename_dim_list)
               /\ \A i \in 1..Len(rename_dim_list) :
                     tree.dims[p][i] = rename_dim_list[i]

\* A variable of two dimensions got both renamed by a dimensions attribute
\* that only the edits gave it.
C10_Witness ==
    \E p \in done_items \cap VariablesOf(in_tree) :
        /\ A_dimensions \notin DOMAIN in_tree.attrs[p]
        /\ A_dimensions \in DOMAIN tree.attrs[p]
        /\ Len(in_tree.dims[p]) = 2
        /\ tree.dims[p] = SplitWhitespace(tree.attrs[p][A_dimensions].s)
        /\ tree.dims[p][1] # in_tree.dims[p][1]
        /\ tree.dims[p][2] # in_tree.dims[p][2]

CallOf(fn, args, r, g) ==
    /\ call = [fn |-> fn, args |-> args, returned |-> FALSE, error |-> NoError,
               value |-> <<>>]
    /\ rules = r
    /\ in_tree = g
    /\ pc = "call"
    /\ tree = NoTree
    /\ items_to_update = {}
    /\ variables_to_create = {}
    /\ todo = {}
    /\ done_items = {}
    /\ dimension_vars = {}
    /\ dimension_idx_map = EmptyDict
    /\ out_file = NoTree
    /\ error = NoError

\* The function called returns the value, or raises the error e.
Return(e, value) ==
    /\ call' = [call EXCEPT !.returned = TRUE, !.error = e, !.value = value]
    /\ UNCHANGED <<rules, in_tree, pc, tree, items_to_update,
                   variables_to_create, todo, done_items, dimension_vars,
                   dimension_idx_map, out_file, error>>

\* The global history attributes of the trees update_history_metadata is
\* called on: those of the input granules, and empty texts.
HistoryCallVariants ==
    HistoryVariants
    \cup { (A_history :> Str(<<>>)),
           (A_History :> Str(<<>>)) @@ (A_history :> Str(H_plain)) }

\* update_history_metadata is about to be called on a tree.
InitCall_update_history_metadata ==
    \E hist \in HistoryCallVariants, with_y \in BOOLEAN :
        CallOf("update_history_metadata",
               [datatree |-> InputTree(hist, with_y)], EmptyDict, NoTree)

\* update_history_metadata(datatree)
Call_update_history_metadata ==
    /\ call.fn = "update_history_metadata"
    /\ ~call.returned
    /\ Return(NoError, update_history_metadata(call.args.datatree))

\* The geotransforms of the calls: <<x of the origin, pixel width, row
\* rotation, y of the origin, column rotation, pixel height>>.
Geotransforms ==
    { <<ox, pw, rr, oy, cr, ph>> :
        ox \in {-2000, 0}, pw \in {-1000, 0, 1000}, rr \in {-1000, 0, 1000},
        oy \in {-2000, 0}, cr \in {-1000, 0, 1000}, ph \in {-1000, 0, 1000} }

\* Geotransform.col_row_to_xy is about to be called.
InitCall_col_row_to_xy ==
    \E geotransform \in Geotransforms, col \in 0..MaxIndex, row \in 0..MaxIndex :
        CallOf("col_row_to_xy",
               [geotransform |-> geotransform, col |-> col, row |-> row],
               EmptyDict, NoTree)

\* geotransform.col_row_to_xy(col, row)
Call_col_row_to_xy ==
    /\ call.fn = "col_row_to_xy"
    /\ ~call.returned
    /\ Return(NoError, col_row_to_xy(call.args.geotransform, call.args.col,
                                     call.args.row))

\* compute_dimension_scale is about to be called.
InitCall_compute_dimension_scale ==
    \E start_index \in 0..MaxIndex, dim_size \in 0..DimSize,
       spatial_dimension_type \in {"x", "y", "z", ""},
       geotransform_config \in Geotransforms :
        CallOf("compute_dimension_scale",
               [start_index |-> start_index, dim_size |-> dim_size,
                spatial_dimension_type |-> spatial_dimension_type,
                geotransform_config |-> geotransform_config],
               EmptyDict, NoTree)

\* compute_dimension_scale(start_index, dim_size, spatial_dimension_type,
\* np.float64, geotransform_config)
Call_compute_dimension_scale ==
    /\ call.fn = "compute_dimension_scale"
    /\ ~call.returned
    /\ LET r == compute_dimension_scale(call.args.start_index, call.args.dim_size,
                                        call.args.spatial_dimension_type, "float64",
                                        call.args.geotransform_config)
       IN  Return(r.error, r.scale)

\* The variable names of the history entries.
EntryVariables ==
    { <<"/", "g", "/", "s", "u", "r", "f", "a", "c", "e", "_", "f", "l", "a", "g">>, <<"/", "g", "/", "s">>, <<>> }

\* The bracketed groups of the history entries, each with the start index it
\* stands for; the last one has nothing left of its ':' and stands for none.
EntryGroups ==
    { [text |-> <<>>, start |-> 0],
      [text |-> <<"1", "6", ":", "4", "4">>, start |-> 16],
      [text |-> <<"2", "2", "7", ":", "2", "7", "8">>, start |-> 227],
      [text |-> <<"5">>, start |-> 5],
      [text |-> <<":", "4">>, start |-> -1] }

\* The sequences of at most MaxGroups groups.
EntryGroupSeqs == UNION {[1..n -> EntryGroups] : n \in 0..MaxGroups}

RECURSIVE BracketText(_)
\* The groups, each in its brackets.
BracketText(groups) ==
    IF groups = <<>> THEN <<>>
    ELSE <<"[">> \o Head(groups).text \o <<"]">> \o BracketText(Tail(groups))

\* The history entry of a variable and its groups.
EntryText(variable, groups) == variable \o BracketText(groups)

\* Entries without a '[' that a ']' follows.
EntriesWithoutBrackets ==
    { <<"/", "g", "/", "s">>, <<"/", "g", "/", "s", "[", "1", ":", "9">>, <<"/", "g", "/", "s", "]", "1", ":", "9", "[">>, <<"1", ":", "9", "]">> }

\* One history entry is about to be parsed.
InitCall_parse_history_entry ==
    \E entry \in {EntryText(v, gs) : v \in EntryVariables, gs \in EntryGroupSeqs}
                  \cup EntriesWithoutBrackets :
        CallOf("parse_history_entry", [entry |-> entry], EmptyDict, NoTree)

\* The body of the loop of parse_start_indices_from_history_attr for one
\* entry: get_index_range_substring, then the start of each group.
Call_parse_history_entry ==
    /\ call.fn = "parse_history_entry"
    /\ ~call.returned
    /\ LET r == get_index_range_substring(call.args.entry)
           variable == r[1]
           dim_indices == r[2]
       IN  IF ~StartDimsParse(dim_indices)
           THEN Return(Raised("ValueError", <<>>),
                       [variable |-> <<>>, start_dims |-> <<>>])
           ELSE Return(NoError,
                       [variable |-> variable, start_dims |-> StartDims(dim_indices)])

\* The path of an index variable, and a path no tree has.
P_r == <<"/", "r">>
P_missing == <<"/", "z">>

\* The names of the axes of the index variable.
AxisNames == << <<"a">>, <<"b">>, <<"c">>, <<"d">>, <<"e">> >>

\* A tree whose variable /r has the given rank, DimSize elements on every
\* axis, and rows that count up from first (the layout of the index
\* variables EASE_column_index of the test granules).
ReferenceTree(rank, first) ==
    [ groups |-> {P_root},
      attrs  |-> (P_root :> EmptyDict) @@ (P_r :> EmptyDict),
      dims   |-> (P_r :> [i \in 1..rank |-> AxisNames[i]]),
      values |-> (P_r :> [k \in 1..(DimSize ^ rank) |-> first + ((k - 1) % DimSize)]) ]

\* get_start_index_from_row_col_variable is about to be called.
InitCall_get_start_index_from_row_col_variable ==
    \E rank \in 0..MaxRank, first \in (0..MaxIndex) \cup {5},
       subset_index_reference \in {P_r, P_missing} :
        CallOf("get_start_index_from_row_col_variable",
               [datatree |-> ReferenceTree(rank, first),
                subset_index_reference |-> subset_index_reference],
               EmptyDict, NoTree)

\* get_start_index_from_row_col_variable(datatree, subset_index_reference)
Call_get_start_index_from_row_col_variable ==
    /\ call.fn = "get_start_index_from_row_col_variable"
    /\ ~call.returned
    /\ LET r == get_start_index_from_row_col_variable(
                    call.args.datatree, call.args.subset_index_reference)
       IN  Return(r.error, r.index)

\* The rule sets of the granule_varinfo get_dimension_index_map is called
\* with: none, and the rule that declares /g/s on the dimensions y and x.
DimensionCallRules == { EmptyDict, [p \in {P_s} |-> RuleUniverse[p]] }

\* The lists of dimension variables get_dimension_index_map is called with.
DimensionRequests ==
    UNION {[1..n -> {P_y, P_t, P_s, P_missing}] : n \in 0..2}

\* get_dimension_index_map is about to be called on an input granule.
InitCall_get_dimension_index_map ==
    \E hist \in HistoryVariants, with_y \in BOOLEAN, r \in DimensionCallRules,
       dimension_variables \in DimensionRequests :
        CallOf("get_dimension_index_map",
               [datatree |-> InputTree(hist, with_y),
                dimension_variables |-> dimension_variables],
               r, InputTree(hist, with_y))

\* get_dimension_index_map(datatree, dimension_variables, granule_var_info)
Call_get_dimension_index_map ==
    /\ call.fn = "get_dimension_index_map"
    /\ ~call.returned
    /\ \E variable_dimension_map \in get_variable_dimension_maps :
          LET r == get_dimension_index_map(call.args.datatree,
                                           call.args.dimension_variables,
                                           variable_dimension_map)
          IN  Return(r.error, r.map)

\* The dimension index maps get_start_index_from_history is called with.
DimensionIndexMaps ==
    UNION {[paths -> 0..MaxIndex] : paths \in SUBSET {P_x, P_y}}

\* get_start_index_from_history is about to be called.
InitCall_get_start_index_from_history ==
    \E dimension_index_map \in DimensionIndexMaps,
       dimension_variable_path \in {P_x, P_y, P_t} :
        CallOf("get_start_index_from_history",
               [dimension_index_map |-> dimension_index_map,
                dimension_variable_path |-> dimension_variable_path],
               EmptyDict, NoTree)

\* get_start_index_from_history(dimension_index_map, dimension_variable_path)
Call_get_start_index_from_history ==
    /\ call.fn = "get_start_index_from_history"
    /\ ~call.returned
    /\ Return(NoError,
              get_start_index_from_history(call.args.dimension_index_map,
                                           call.args.dimension_variable_path))

\* The configurations of the start index of the dimension /g/x: a subset
\* index reference (to /g/s of rank 2, to /g/t of rank 1, to a variable the
\* tree lacks, or the empty text) or none, with a corner point offsets
\* attribute (the sentinel or another text) or none.
StartIndexConfigurations ==
    { DictUpdate(reference, corner) :
        reference \in { EmptyDict }
            \cup { (A_tmp_subset_index_reference :> Str(s)) :
                     s \in {P_s, P_t, P_missing, <<>>} },
        corner \in { EmptyDict,
                     (A_tmp_corner_point_offsets :> Str(T_history_subset_index_ranges)),
                     (A_tmp_corner_point_offsets :> Str(<<"o">>)) } }

\* get_grid_start_index is about to be called for /g/x, configured or not.
InitCall_get_grid_start_index ==
    \E r \in { EmptyDict } \cup { (P_x :> c) : c \in StartIndexConfigurations },
       dimension_index_map \in DimensionIndexMaps, with_y \in BOOLEAN :
        CallOf("get_grid_start_index",
               [datatree |-> InputTree(EmptyDict, with_y),
                dimension_index_map |-> dimension_index_map,
                dimension_variable_path |-> P_x],
               r, InputTree(EmptyDict, with_y))

\* get_grid_start_index(datatree, dimension_index_map, dimension_variable_path,
\* granule_varinfo)
Call_get_grid_start_index ==
    /\ call.fn = "get_grid_start_index"
    /\ ~call.returned
    /\ LET r == get_grid_start_index(call.args.datatree, call.args.dimension_index_map,
                                     call.args.dimension_variable_path)
       IN  Return(r.error, r.index)

\* Entries of a history that records index ranges: the text, the variable
\* it names and the start indices it gives.
HistoryEntries ==
    { [text |-> <<"/", "g", "/", "s", "[", "1", ":", "9", "]", "[", "2", ":", "9", "]">>,
       variable |-> P_s, starts |-> <<1, 2>>],
      [text |-> <<"/", "g", "/", "t", "[", "]", "[", "0", ":", "3", "]">>,
       variable |-> P_t, starts |-> <<0, 0>>],
      [text |-> <<"/", "g", "/", "s", "[", "2", ":", "9", "]">>,
       variable |-> P_s, starts |-> <<2>>] }

\* The lists of one or two entries.
HistoryEntryLists == UNION {[1..n -> HistoryEntries] : n \in 1..2}

RECURSIVE JoinEntries(_)
\* ';'.join of the texts of the entries
JoinEntries(entries) ==
    IF Len(entries) = 1 THEN entries[1].text
    ELSE entries[1].text \o <<";">> \o JoinEntries(Tail(entries))

RECURSIVE quote(_)
\* urllib.parse.quote with no safe character: the inverse of unquote on the
\* characters of PercentCodes.
quote(s) ==
    IF s = <<>> THEN <<>>
    ELSE LET codes == {c \in DOMAIN PercentCodes : PercentCodes[c] = Head(s)}
         IN  (IF codes = {} THEN <<Head(s)>>
              ELSE <<"%">> \o (CHOOSE c \in codes : TRUE)) \o quote(Tail(s))

\* The history text of a list of entries: "plain" is key=ENTRIES, "quoted"
\* is the same with the entries URL-encoded, "nested" is key=name=ENTRIES
\* (the value of the pair is itself name=ENTRIES).
HistoryText(form, entries) ==
    CASE form = "plain"  -> <<"q", "=">> \o JoinEntries(entries)
      [] form = "quoted" -> <<"q", "=">> \o quote(JoinEntries(entries))
      [] form = "nested" -> <<"q", "=", "c", "=">> \o JoinEntries(entries)

\* parse_start_indices_from_history_attr is about to be called on a granule
\* whose history records index ranges.
InitCall_parse_start_indices_from_history_attr ==
    \E form \in {"plain", "quoted", "nested"}, entries \in HistoryEntryLists,
       name \in {A_history, A_History} :
        CallOf("parse_start_indices_from_history_attr",
               [datatree |-> InputTree((name :> Str(HistoryText(form, entries))), FALSE),
                form |-> form, entries |-> entries],
               EmptyDict, NoTree)

\* parse_start_indices_from_history_attr(datatree)
Call_parse_start_indices_from_history_attr ==
    /\ call.fn = "parse_start_indices_from_history_attr"
    /\ ~call.returned
    /\ LET r == parse_start_indices_from_history_attr(call.args.datatree)
       IN  Return(r.error, r.map)

\* Global history attributes without recorded index ranges: none, empty
\* texts, and free texts (with blanks, line ends, '&' and escapes).
FreeHistories ==
    HistoryCallVariants
    \cup { (A_History :> Str(<<>>)),
           (A_history :> Str(<<"a", " ", "b", "\n", "c", " ", "d">>)),
           (A_History :> Str(<<"a", "&", "b", "&">>)),
           (A_history :> Str(<<"a", "%", "3", "B", "b", "%", "2", "F">>)) }

\* parse_start_indices_from_history_attr is about to be called on a granule
\* with such a history.
InitCall_parse_free_history ==
    \E hist \in FreeHistories, with_y \in BOOLEAN :
        CallOf("parse_start_indices_from_history_attr",
               [datatree |-> InputTree(hist, with_y), form |-> "free", entries |-> <<>>],
               EmptyDict, NoTree)

\* The configurations get_geotransform_config is called with: none, the
\* grid mapping variable /m with a geotransform, with an empty one, or with
\* other attributes only, and the variable /n without geotransform.
GridMappingRules ==
    { EmptyDict,
      (P_m :> (A_addition :> Str(<<"n">>))),
      (P_m :> (A_tmp_master_geotransform :> Nums(<<>>))),
      (P_n :> RuleUniverse[P_n]) @@ (P_m :> RuleUniverse[P_m]) }
    \cup { (P_m :> ((A_tmp_master_geotransform :> Nums(geotransform))
                    @@ (A_addition :> Str(<<"n">>)))) :
             geotransform \in {g \in Geotransforms : g[3] = 0 /\ g[5] = 0} }

\* The attributes of the dimension variable: with a grid_mapping (to /m, to
\* /n, to a path without configuration, or empty) or without, and maybe
\* with a standard_name.
GridMappingAttributes ==
    { DictUpdate(reference, other) :
        reference \in { EmptyDict }
            \cup { (A_grid_mapping :> Str(s)) : s \in {P_m, P_n, P_missing, <<>>} },
        other \in { EmptyDict,
                    (A_standard_name :> Str(T_projection_x_coordinate)) } }

\* get_geotransform_config is about to be called on the data array /g/x.
InitCall_get_geotransform_config ==
    \E r \in GridMappingRules, attrs \in GridMappingAttributes :
        CallOf("get_geotransform_config", [attrs |-> attrs, name |-> P_x], r, NoTree)

\* get_geotransform_config(data_array, granule_varinfo)
Call_get_geotransform_config ==
    /\ call.fn = "get_geotransform_config"
    /\ ~call.returned
    /\ LET r == get_geotransform_config(call.args.attrs, call.args.name)
       IN  Return(r.error, r.config)

\* Dimension tuples of a granule whose variables share dimensions.
DimensionTuples == { <<P_y, P_x>>, <<P_x, P_y>>, <<P_y>> }

\* Variable dimension maps of up to two items, in iteration order: the
\* keys of a dict are distinct.
VariableDimensionMaps ==
    { <<>> }
    \cup { << <<dims, v>> >> : dims \in DimensionTuples, v \in {P_s, P_t, P_r} }
    \cup { items \in { << <<d1, v1>>, <<d2, v2>> >> :
                         d1 \in DimensionTuples, d2 \in DimensionTuples,
                         v1 \in {P_s, P_t, P_r}, v2 \in {P_s, P_t, P_r} } :
             items[1][1] # items[2][1] }

\* Start indices as the history records them for one variable.
StartIndexLists == { <<1>>, <<1, 2>>, <<2, 1>>, <<0, 1, 2>> }

\* Provenance maps over the variables /g/s and /g/t.
VariableStartIndicesMaps ==
    UNION { [recorded -> StartIndexLists] : recorded \in SUBSET {P_s, P_t} }

\* get_dim_index_from_var_dim_map is about to be called.
InitCall_get_dim_index_from_var_dim_map ==
    \E variable_dimension_map \in VariableDimensionMaps,
       variable_start_indices_map \in VariableStartIndicesMaps :
        CallOf("get_dim_index_from_var_dim_map",
               [variable_dimension_map |-> variable_dimension_map,
                variable_start_indices_map |-> variable_start_indices_map],
               EmptyDict, NoTree)

\* get_dim_index_from_var_dim_map(variable_dimension_map, variable_start_indices_map)
Call_get_dim_index_from_var_dim_map ==
    /\ call.fn = "get_dim_index_from_var_dim_map"
    /\ ~call.returned
    /\ Return(NoError,
              get_dim_index_from_var_dim_map(call.args.variable_dimension_map,
                                             call.args.variable_start_indices_map))

\* An input granule whose variables /g/s and /g/t lie on the same
\* dimensions, y and x.
SharedGridTree(hist) ==
    [InputTree(hist, TRUE) EXCEPT
        !.dims[P_t] = << <<"y">>, <<"x">> >>,
        !.values[P_t] = [k \in 1..(DimSize * DimSize) |-> 2 + k]]

\* Histories that record index ranges for /g/s only, for /g/t only, and for
\* both with the same ranges.
SharedGridHistories ==
    { (A_history :> Str(H_provenance)),
      (A_history :> Str(<<"q", "=", "c", "=", "/", "g", "/", "t",
                         "[", "1", ":", "9", "]", "[", "2", ":", "9", "]">>)),
      (A_history :> Str(H_provenance \o
                        <<";", "/", "g", "/", "t",
                          "[", "1", ":", "9", "]", "[", "2", ":", "9", "]">>)) }

\* get_dimension_index_map is about to be called on a granule with two
\* variables of one dimension signature.
InitCall_get_dimension_index_map_shared_grid ==
    \E hist \in SharedGridHistories, dimension_variables \in DimensionRequests :
        CallOf("get_dimension_index_map",
               [datatree |-> SharedGridTree(hist),
                dimension_variables |-> dimension_variables],
               EmptyDict, SharedGridTree(hist))

InitCalls ==
    \/ InitCall_update_history_metadata
    \/ InitCall_col_row_to_xy
    \/ InitCall_compute_dimension_scale
    \/ InitCall_parse_history_entry
    \/ InitCall_get_start_index_from_row_col_variable
    \/ InitCall_get_dimension_index_map
    \/ InitCall_get_start_index_from_history
    \/ InitCall_get_grid_start_index
    \/ InitCall_parse_start_indices_from_history_attr
    \/ InitCall_parse_free_history
    \/ InitCall_get_geotransform_config
    \/ InitCall_get_dim_index_from_var_dim_map
    \/ InitCall_get_dimension_index_map_shared_grid

NextCalls ==
    \/ Call_update_history_metadata
    \/ Call_col_row_to_xy
    \/ Call_compute_dimension_scale
    \/ Call_parse_history_entry
    \/ Call_get_start_index_from_row_col_variable
    \/ Call_get_dimension_index_map
    \/ Call_get_start_index_from_history
    \/ Call_get_grid_start_index
    \/ Call_parse_start_indices_from_history_attr
    \/ Call_get_geotransform_config
    \/ Call_get_dim_index_from_var_dim_map

SpecCalls == InitCalls /\ [][NextCalls]_vars

C13_PixelCentre ==
    (call.fn = "col_row_to_xy" /\ call.returned) =>
        LET gt == call.args.geotransform
            col == call.args.col
            row == call.args.row
        IN  /\ call.error = NoError
            /\ 2 * call.value[1]
                 = 2 * gt[1] + (2 * col + 1) * gt[2] + (2 * row + 1) * gt[3]
            /\ 2 * call.value[2]
                 = 2 * gt[4] + (2 * col + 1) * gt[5] + (2 * row + 1) * gt[6]
            /\ (gt = <<-2000, 1000, 0, 0, 0, -1000>> /\ col = 0 /\ row = 0)
                  => call.value = <<-1500, -500>>
            /\ (gt = <<-2000, 1000, 0, 0, 0, -1000>> /\ col = 1 /\ row = 1)
                  => call.value = <<-500, -1500>>

\* col_row_to_xy has returned (-500, -1500) for the cell (1, 1) of the
\* geotransform (-2000, 1000, 0, 0, 0, -1000).
C13_Witness ==
    /\ call.fn = "col_row_to_xy"
    /\ call.returned
    /\ call.args = [geotransform |-> <<-2000, 1000, 0, 0, 0, -1000>>,
                    col |-> 1, row |-> 1]
    /\ call.value = <<-500, -1500>>

\* C14: compute_dimension_scale returns as many values as the dimension has
\* elements; counting k from 0, the k-th is the x of the cell (start + k, 0)
\* for the axis x and the y of the cell (0, start + k) for the axis y; for
\* every other axis it raises InvalidSpatialDimensionType and returns
\* nothing.
C14_DimensionScale ==
    (call.fn = "compute_dimension_scale" /\ call.returned) =>
        LET a == call.args
        IN  IF a.spatial_dimension_type \in {"x", "y"}
            THEN /\ call.error = NoError
                 /\ Len(call.value) = a.dim_size
                 /\ \A k \in 0..(a.dim_size - 1) :
                       call.value[k + 1]
                         = IF a.spatial_dimension_type = "x"
                           THEN col_row_to_xy(a.geotransform_config,
                                              a.start_index + k, 0)[1]
                           ELSE col_row_to_xy(a.geotransform_config,
                                              0, a.start_index + k)[2]
            ELSE /\ call.error = Raised("InvalidSpatialDimensionType",
                                        <<a.spatial_dimension_type>>)
                 /\ call.value = <<>>

\* compute_dimension_scale has returned the x scale of two cells from start
\* index 1 for a geotransform with a row rotation.
C14_Witness ==
    /\ call.fn = "compute_dimension_scale"
    /\ call.returned
    /\ call.args = [start_index |-> 1, dim_size |-> 2,
                    spatial_dimension_type |-> "x",
                    geotransform_config |-> <<-2000, 1000, 1000, 0, 0, -1000>>]
    /\ call.error = NoError
    /\ call.value = <<0, 1000>>

\* C15: parsing one history entry yields as variable the text before the
\* first '[' and one start index for each bracketed group, in order: the
\* whole number left of the ':', or 0 for an empty bracket; an entry without
\* a pair of brackets yields the empty variable name and no index.
C15_HistoryEntryParsed ==
    (call.fn = "parse_history_entry" /\ call.returned) =>
        LET entry == call.args.entry
        IN  /\ \A v \in EntryVariables, gs \in EntryGroupSeqs :
                  ( /\ entry = EntryText(v, gs)
                    /\ gs # <<>>
                    /\ \A i \in 1..Len(gs) : gs[i].start >= 0 ) =>
                      /\ call.error = NoError
                      /\ call.value.variable = v
                      /\ call.value.start_dims = [i \in 1..Len(gs) |-> gs[i].start]
            /\ (~\E i, j \in 1..Len(entry) : i < j /\ entry[i] = "[" /\ entry[j] = "]") =>
                  /\ call.error = NoError
                  /\ call.value = [variable |-> <<>>, start_dims |-> <<>>]

\* The entry /g/surface_flag[][16:44][227:278] has been parsed into the
\* variable /g/surface_flag and the start indices 0, 16 and 227.
C15_Witness ==
    /\ call.fn = "parse_history_entry"
    /\ call.returned
    /\ call.args.entry = <<"/", "g", "/", "s", "u", "r", "f", "a", "c", "e", "_", "f", "l", "a", "g",
                           "[", "]", "[", "1", "6", ":", "4", "4", "]",
                           "[", "2", "2", "7", ":", "2", "7", "8", "]">>
    /\ call.error = NoError
    /\ call.value.variable = <<"/", "g", "/", "s", "u", "r", "f", "a", "c", "e", "_", "f", "l", "a", "g">>
    /\ call.value.start_dims = <<0, 16, 227>>

StepOrder(p) ==
    CASE p = "start" -> 0
      [] p = "update_items" -> 1
      [] p = "create_variables" -> 2
      [] p = "update_dimension_attributes" -> 3
      [] p = "update_spatial_values" -> 3
      [] p = "update_history" -> 4
      [] p = "write" -> 5
      [] p = "done" -> 6
      [] OTHER -> 7

RecordedIndexMaps ==
    {get_dim_index_from_var_dim_map(
         variable_dimension_map, parse_start_indices_from_history_attr(in_tree).map) :
             variable_dimension_map \in get_variable_dimension_maps}

\* The dimension variables were updated: update_dimension_variables is
\* called when a dimension variable is among the variables to create.
DimensionVariablesUpdated == variables_to_create \cap dimension_vars # {}

\* C19: in a run that updated the dimension variables, a spatial dimension
\* variable whose configuration has _*corner_point_offsets equal to
\* history_subset_index_ranges and no _*subset_index_reference, and for
\* whose path the history of the granule records a start index, has the
\* coordinate scale that starts at the recorded index.
C19_RecordedStartIndexUsed ==
    (pc = "done" /\ has_metadata_overrides /\ DimensionVariablesUpdated) =>
        \A d \in get_spatial_dimension_variables(out_file, dimension_vars) :
            LET config == get_metadata_overrides(d)
            IN  ( /\ Get(config, A_tmp_corner_point_offsets, None)
                        = Str(T_history_subset_index_ranges)
                  /\ A_tmp_subset_index_reference \notin DOMAIN config
                  /\ parse_start_indices_from_history_attr(in_tree).error = NoError
                  /\ \A m \in RecordedIndexMaps : d \in DOMAIN m ) =>
                    \E m \in RecordedIndexMaps :
                        out_file.values[d]
                          = compute_dimension_scale(
                                m[d], Len(out_file.values[d]),
                                get_spatial_dimension_type(out_file.attrs[d], d).type,
                                "float64",
                                get_geotransform_config(out_file.attrs[d], d).config).scale

\* The coordinate scale of the dimension variable d of the written tree,
\* from the start index its configuration selects: the first value of the
\* subset index reference, or the entry of the dimension index map (0
\* without one).
ExpectedScale(d) ==
    LET config == get_metadata_overrides(d)
        reference == Get(config, A_tmp_subset_index_reference, None)
        start == IF Truthy(reference) THEN out_file.values[reference.s][1]
                 ELSE IF d \in DOMAIN dimension_idx_map THEN dimension_idx_map[d]
                 ELSE 0
    IN  compute_dimension_scale(
            start, Len(out_file.values[d]),
            get_spatial_dimension_type(out_file.attrs[d], d).type, "float64",
            get_geotransform_config(out_file.attrs[d], d).config).scale

\* The dimension variables of the written tree with the standard_name of a
\* projected axis.
MarkedDimensionVariables ==
    {d \in dimension_vars \cap VariablesOf(out_file) :
        /\ A_standard_name \in DOMAIN out_file.attrs[d]
        /\ out_file.attrs[d][A_standard_name]
             \in {Str(T_projection_x_coordinate), Str(T_projection_y_coordinate)}}

\* C20 as stated: after a successful run with rules, every dimension
\* variable with the standard_name of a projected axis (and a geotransform
\* to compute from) holds the coordinate scale of its start index.
C20_EveryMarkedDimensionRescaled ==
    (pc = "done" /\ has_metadata_overrides) =>
        \A d \in MarkedDimensionVariables :
            (get_geotransform_config(out_file.attrs[d], d).error = NoError) =>
                out_file.values[d] = ExpectedScale(d)

\* C20, amended: after a successful run with rules in which a dimension
\* variable was among the variables to create, every dimension variable with
\* the standard_name of a projected axis holds the coordinate scale of its
\* start index, whether the input had the variable or not; in a run in
\* which no dimension variable was to be created, every dimension variable
\* of the input keeps its values and none is added.
C20_MarkedDimensionsRescaledWhenCreating ==
    (pc = "done" /\ has_metadata_overrides) =>
        IF DimensionVariablesUpdated
        THEN \A d \in MarkedDimensionVariables :
                 /\ get_geotransform_config(out_file.attrs[d], d).error = NoError
                 /\ out_file.values[d] = ExpectedScale(d)
        ELSE \A d \in dimension_vars :
                 IF d \in VariablesOf(in_tree)
                 THEN /\ d \in VariablesOf(out_file)
                      /\ out_file.values[d] = in_tree.values[d]
                 ELSE d \notin VariablesOf(out_file)

\* A run has rescaled the dimension variable /g/y the input had (from the
\* start index 5 of its reference /g/s) and the dimension variable /g/x it
\* added (from the start index 2 the history records).
C20_Witness ==
    /\ pc = "done"
    /\ has_metadata_overrides
    /\ DimensionVariablesUpdated
    /\ P_y \in VariablesOf(in_tree)
    /\ P_x \notin VariablesOf(in_tree)
    /\ {P_x, P_y} \subseteq MarkedDimensionVariables
    /\ in_tree.values[P_y] = Arange(DimSize)
    /\ out_file.values[P_y] = ExpectedScale(P_y)
    /\ out_file.values[P_y][1] = -5500
    /\ out_file.values[P_x][1] = 500

(***************************************************************************)
(* The attributes of the dimension variables.                              *)
(***************************************************************************)
\* The attributes a agree with the overrides by the semantics of the edits
\* of a node: a non-null, non-temporary override is set, a null-valued one
\* names no attribute, a temporary one is not written.
EditedAsANode(a, overrides) ==
    \A name \in DOMAIN overrides :
        IF Len(name) > 2 /\ name[1] = "_" /\ name[2] = "*"
        THEN name \notin DOMAIN a
        ELSE IF overrides[name] = None
        THEN name \notin DOMAIN a
        ELSE name \in DOMAIN a /\ a[name] = overrides[name]

\* The dimension variables update_dimension_variable_attributes has been
\* applied to.
UpdatedDimensionVariables ==
    IF ~DimensionVariablesUpdated THEN {}
    ELSE IF pc = "update_dimension_attributes" THEN dimension_vars \ todo
    ELSE IF pc \in {"update_spatial_values", "update_history", "write", "done"}
    THEN dimension_vars
    ELSE {}

C23_SinglePairParsed ==
    ( /\ call.fn = "parse_start_indices_from_history_attr"
      /\ call.returned
      /\ call.args.form \in {"plain", "quoted"}
      /\ \A i, j \in 1..Len(call.args.entries) :
            call.args.entries[i].variable = call.args.entries[j].variable => i = j ) =>
        /\ call.error = NoError
        /\ DOMAIN call.value
             = {call.args.entries[i].variable : i \in 1..Len(call.args.entries)}
        /\ \A i \in 1..Len(call.args.entries) :
              call.value[call.args.entries[i].variable] = call.args.entries[i].starts

\* C24: parse_start_indices_from_history_attr returns the empty map and
\* raises nothing for a tree without history attribute, for an empty history
\* text, and for a history text that (decoded) holds no '=' and so no
\* key=value pair.
C24_FreeHistoryGivesEmptyMap ==
    ( /\ call.fn = "parse_start_indices_from_history_attr"
      /\ call.returned
      /\ LET a == call.args.datatree.attrs[P_root]
             text == IF A_History \in DOMAIN a THEN a[A_History].s
                     ELSE IF A_history \in DOMAIN a THEN a[A_history].s
                     ELSE <<>>
         IN  \A i \in 1..Len(unquote(text)) : unquote(text)[i] # "=" ) =>
        /\ call.error = NoError
        /\ call.value = EmptyDict

\* The free text 'a b', a line end, 'c d' has been parsed into the empty
\* map.
C24_Witness ==
    /\ call.fn = "parse_start_indices_from_history_attr"
    /\ call.returned
    /\ call.args.form = "free"
    /\ Get(call.args.datatree.attrs[P_root], A_history, None)
         = Str(<<"a", " ", "b", "\n", "c", " ", "d">>)
    /\ call.error = NoError
    /\ call.value = EmptyDict

\* C25: get_start_index_from_row_col_variable raises
\* MissingSubsetIndexReference for a reference the tree lacks and
\* InvalidSubsetIndexShape for a reference variable of rank 0 or 1; in both
\* cases it raises instead of returning a start index.
C25_ReferenceFailures ==
    (call.fn = "get_start_index_from_row_col_variable" /\ call.returned) =>
        LET reference == call.args.subset_index_reference
            t == call.args.datatree
        IN  /\ (reference \notin t.groups \cup DOMAIN t.dims) =>
                  call.error = Raised("MissingSubsetIndexReference", <<reference>>)
            /\ (reference \in DOMAIN t.dims /\ Len(t.dims[reference]) < 2) =>
                  call.error = Raised("InvalidSubsetIndexShape", <<reference>>)

\* The call on the reference variable of rank 1 has raised
\* InvalidSubsetIndexShape.
C25_Witness ==
    /\ call.fn = "get_start_index_from_row_col_variable"
    /\ call.returned
    /\ call.args.subset_index_reference = P_r
    /\ Len(call.args.datatree.dims[P_r]) = 1
    /\ call.error = Raised("InvalidSubsetIndexShape", <<P_r>>)

(***************************************************************************)
(* The geotransform of a dimension variable.                               *)
(***************************************************************************)
\* C26: get_geotransform_config raises MissingDimensionAttribute for a
\* dimension variable without grid_mapping attribute, raises
\* InvalidGridMappingReference when the variable the attribute names has no
\* configured attributes, raises MissingDimensionAttribute when that variable
\* has no geotransform coefficients, and otherwise returns the configured
\* list as it is.
C26_GeotransformThroughGridMapping ==
    (call.fn = "get_geotransform_config" /\ call.returned) =>
        LET attrs == call.args.attrs
            reference == attrs[A_grid_mapping].s
        IN  IF A_grid_mapping \notin DOMAIN attrs \/ attrs[A_grid_mapping].s = <<>>
            THEN call.error = Raised("MissingDimensionAttribute",
                                     <<call.args.name, A_grid_mapping>>)
            ELSE IF reference \notin DOMAIN rules
            THEN call.error = Raised("InvalidGridMappingReference", <<reference>>)
            ELSE IF \/ A_tmp_master_geotransform \notin DOMAIN rules[reference]
                    \/ rules[reference][A_tmp_master_geotransform].n = <<>>
            THEN call.error = Raised("MissingDimensionAttribute",
                                     <<call.args.name, A_tmp_master_geotransform>>)
            ELSE /\ call.error = NoError
                 /\ call.value = rules[reference][A_tmp_master_geotransform].n
                 /\ Len(call.value) = 6

\* The geotransform (-2000, 1000, 0, 0, 0, -1000) configured for /m has been
\* returned for a dimension variable whose grid_mapping is /m.
C26_Witness ==
    /\ call.fn = "get_geotransform_config"
    /\ call.returned
    /\ Get(call.args.attrs, A_grid_mapping, None) = Str(P_m)
    /\ call.error = NoError
    /\ call.value = <<-2000, 1000, 0, 0, 0, -1000>>

\* The positions of the item k of the map at which the dimension path d is
\* paired with a start index of the item's variable.
PairedPositions(items, start_map, k, d) ==
    IF items[k][2] \in DOMAIN start_map
    THEN { i \in 1..Len(items[k][1]) :
             /\ i <= Len(start_map[items[k][2]])
             /\ items[k][1][i] = d }
    ELSE {}

\* The items of the map that pair the dimension path d with a start index.
PairingItems(items, start_map, d) ==
    { k \in 1..Len(items) : PairedPositions(items, start_map, k, d) # {} }

\* The dimension paths of the tuples of the map.
DimensionsOf(items) ==
    UNION { { items[k][1][i] : i \in 1..Len(items[k][1]) } : k \in 1..Len(items) }

\* The call of get_dim_index_from_var_dim_map has returned.
C27_Returned ==
    /\ call.fn = "get_dim_index_from_var_dim_map"
    /\ call.returned

\* C27, as stated: every dimension tuple whose representative variable is a
\* key of the provenance map has its i-th dimension path mapped to the i-th
\* start index of that variable, and no other tuple contributes an entry.
C27_EveryTupleComposed ==
    C27_Returned =>
        LET items == call.args.variable_dimension_map
            start_map == call.args.variable_start_indices_map
        IN  /\ DOMAIN call.value =
                   { d \in DimensionsOf(items) : PairingItems(items, start_map, d) # {} }
            /\ \A d \in DOMAIN call.value :
                   \A k \in PairingItems(items, start_map, d) :
                       \A i \in PairedPositions(items, start_map, k, d) :
                           call.value[d] = start_map[items[k][2]][i]

\* C27: get_dim_index_from_var_dim_map composes the two maps; a dimension
\* path has an entry exactly when some tuple whose representative variable
\* is a key of the provenance map pairs it with a start index, and its entry
\* is the start index at its position in the last such tuple of the map's
\* iteration order.  Tuples whose representative is absent from the
\* provenance map contribute nothing.
C27_LastTupleComposed ==
    C27_Returned =>
        LET items == call.args.variable_dimension_map
            start_map == call.args.variable_start_indices_map
        IN  /\ DOMAIN call.value =
                   { d \in DimensionsOf(items) : PairingItems(items, start_map, d) # {} }
            /\ \A d \in DOMAIN call.value :
                   LET k == CHOOSE k \in PairingItems(items, start_map, d) :
                                \A j \in PairingItems(items, start_map, d) : j <= k
                       i == CHOOSE i \in PairedPositions(items, start_map, k, d) :
                                \A j \in PairedPositions(items, start_map, k, d) : j <= i
                   IN  call.value[d] = start_map[items[k][2]][i]

\* Two tuples whose representatives are recorded give /g/y different start
\* indices and the map has the later one; a third dimension has no entry.
C27_Witness ==
    /\ C27_Returned
    /\ call.args.variable_dimension_map = << <<<<P_y, P_x>>, P_s>>, <<<<P_y>>, P_t>> >>
    /\ call.args.variable_start_indices_map = (P_s :> <<1, 2>>) @@ (P_t :> <<2, 1>>)
    /\ call.value = (P_y :> 2) @@ (P_x :> 2)

(***************************************************************************)
(* The history provenance is parsed before the history line is appended.   *)
(***************************************************************************)
\* The step of update_dimension_variables that calls get_dimension_index_map:
\* the only place where the history provenance is parsed.
ProvenanceParsed ==
    /\ pc = "update_dimension_attributes"
    /\ todo = {}
    /\ get_spatial_dimension_variables(tree, dimension_vars) # {}
    /\ pc' \in {"update_spatial_values", "failed"}

\* C28: the dimension index map is built at most once in a run, by the only
\* step that parses the history provenance, and that step reads the history
\* attribute as the input had it: the history attribute of the tree changes
\* only when the history line is appended, after which neither the parsing
\* step is taken nor the dimension index map changed.
C28_ProvenanceParsedBeforeAppending ==
    [][ has_metadata_overrides =>
          /\ (dimension_idx_map' # dimension_idx_map) =>
                /\ ProvenanceParsed
                /\ dimension_idx_map = EmptyDict
          /\ ProvenanceParsed =>
                /\ read_history_attrs(tree) = read_history_attrs(in_tree)
                /\ dimension_idx_map = EmptyDict
          /\ (pc \in {"update_spatial_values", "update_history", "write", "done", "failed"}) =>
                /\ ~ProvenanceParsed
                /\ pc' # "update_dimension_attributes"
                /\ dimension_idx_map' = dimension_idx_map
          /\ (pc # "start" /\ read_history_attrs(tree') # read_history_attrs(tree)) =>
                /\ pc = "update_history"
                /\ pc' = "write"
                /\ tree' = update_history_metadata(tree) ]_vars

\* A run has ended whose input recorded index ranges: the dimension index
\* map was built from them, and the output has the input's history with
\* the history line appended after it.
C28_Witness ==
    /\ pc = "done"
    /\ read_history_attrs(in_tree) = <<A_history, Str(H_provenance)>>
    /\ dimension_idx_map = (P_y :> 1) @@ (P_x :> 2)
    /\ read_history_attrs(out_file) =
           <<A_history, Str(H_provenance \o <<"\n">> \o new_history_line)>>

(***************************************************************************)
(* Missing variables are new.                                              *)
(***************************************************************************)
\* C29: no path of the missing-variable set is a group or variable of the
\* input, the match set consists of groups and variables of the input and
\* so shares no path with the missing-variable set, and every call of
\* create_new_variable adds a variable at a path the input does not have and
\* leaves every variable of the input as it was.
C29_MissingVariablesAreNew ==
    [][ has_metadata_overrides =>
          /\ variables_to_create' \cap NodesOf(in_tree) = {}
          /\ items_to_update' \subseteq NodesOf(in_tree)
          /\ items_to_update' \cap variables_to_create' = {}
          /\ (pc = "create_variables") =>
                \A variable_path \in done_items' \ done_items :
                    /\ variable_path \in variables_to_create
                    /\ variable_path \notin NodesOf(in_tree)
                    /\ variable_path \notin NodesOf(tree)
                    /\ variable_path \in VariablesOf(tree')
                    /\ \A v \in VariablesOf(in_tree) :
                          /\ v \in VariablesOf(tree')
                          /\ tree'.dims[v] = tree.dims[v]
                          /\ tree'.values[v] = tree.values[v]
                          /\ tree'.attrs[v] = tree.attrs[v] ]_vars

\* A run has ended in which the grid mapping variable /m, which the input
\* lacks, was created next to the edited variable /g/s of the input.
C29_Witness ==
    /\ pc = "done"
    /\ P_s \in items_to_update
    /\ P_m \in variables_to_create
    /\ P_m \notin NodesOf(in_tree)
    /\ P_m \in done_items
    /\ P_m \in VariablesOf(out_file)
    /\ VariablesOf(in_tree) \subseteq VariablesOf(out_file)

(***************************************************************************)
(* The representative of a dimension signature.                            *)
(***************************************************************************)
\* get_dimension_index_map has returned a map built from the history of a
\* granule with a flagged dimension variable.
C30_MapBuilt ==
    /\ call.fn = "get_dimension_index_map"
    /\ call.returned
    /\ call.error = NoError
    /\ AnyFlagged(call.args.datatree, call.args.dimension_variables) = "true"
    /\ parse_start_indices_from_history_attr(call.args.datatree).error = NoError

\* C30, as stated: whichever variable represents a dimension signature,
\* whenever a variable with that dimension tuple has an entry in the history
\* provenance, every dimension of the tuple has that entry's start index in
\* the dimension index map.
C30_RepresentativeIndependent ==
    C30_MapBuilt =>
        LET recorded == parse_start_indices_from_history_attr(call.args.datatree).map
        IN  \A dimlist \in DOMAIN group_variables_by_dimensions :
                \A v \in group_variables_by_dimensions[dimlist] \cap DOMAIN recorded :
                    \A i \in 1..Len(dimlist) :
                        i <= Len(recorded[v]) =>
                            /\ dimlist[i] \in DOMAIN call.value
                            /\ call.value[dimlist[i]] = recorded[v][i]

====
